---- MODULE Spec2Model ----
(***************************************************************************)
(* Verification model of the photography backend's media pipeline:         *)
(*   - the Socket.IO progress notifier (server.js, io.on('connection')),   *)
(*   - the compression engine (VideoCompressionService),                   *)
(*   - the storage uploaders (S3Service, CloudinaryService),               *)
(*   - the create / delete paths of HomepageService, PortfolioService and  *)
(*     PortfolioController that tie remote media to database records.      *)
(* Each part has its own specification; the variables of the other parts   *)
(* stay at their initial value.                                            *)
(***************************************************************************)
EXTENDS Integers, Sequences, FiniteSets, TLC

VARIABLES
    connected,   \* progress notifier: the sockets currently connected
    rooms,       \* progress notifier: socket -> socket.rooms
    outbox,      \* progress notifier: socket -> events sent by socket.emit
    joinLog,     \* progress notifier: socket -> ids of the handled 'join-upload' events
    lastEffects, \* progress notifier: the effects of the last 'join-upload' handler, in code order
    joinedAt,    \* history: socket -> the joins it made and how many effects the request had then
    clock,       \* compression engine: Date.now()
    tempDir,     \* compression engine: temp path -> file content (Absent when no file)
    calls,       \* compression engine: invocation -> state of one compressVideoBuffer call
    mediaService,\* which uploader module the services' require('./cloudinaryService') resolves to
    store,       \* remote object store: the publicIds (keys) that exist
    db,          \* database: record id -> row (NoRecord when there is no such row)
    removed,     \* history: <<method, publicId>> of the direct uploader deletes that returned true
    lastOp,      \* history: what the last delete operation did
    up,          \* upload pipeline: the request in progress and its locals
    trace,       \* upload pipeline: the effects of the request so far, in order
    rx,          \* upload receiver: the multipart request at a route and its outcome
    ff,          \* compression engine: the options of the transcoder command built last
    fu,          \* folder creation: upload -> state of one uploadImage / uploadVideo call of S3Service
    bucket,      \* folder creation: the keys of the S3 bucket, <<folder, name>>
    mediaUrl,    \* homepage elements: record id -> the row's media_url column (db holds media_public_id)
    issued,      \* homepage elements: the keys the uploader has given to uploaded objects so far
    lastEl,      \* history: the last create / update / bulk operation on homepage elements and what its upload returned
    viewCount,   \* view counter: the view_count column of the project's row
    vc           \* view counter: request -> state of one incrementViewCount call

sockVars == <<connected, rooms, outbox, joinLog, lastEffects, joinedAt>>
notOutbox == <<connected, rooms, joinLog, lastEffects, joinedAt>>
compVars == <<clock, tempDir, calls>>
delVars == <<mediaService, store, db, removed, lastOp>>
notStore == <<mediaService, db, removed, lastOp>>
upVars == <<up, trace>>
rxVars == <<rx>>
ffVars == <<ff>>
folderVars == <<fu, bucket>>
elVars == <<mediaUrl, issued, lastEl>>
viewVars == <<viewCount, vc>>

(***************************************************************************)
(* Bounds of the model.                                                    *)
(***************************************************************************)
MaxJoins == 2
MaxClock == 2
MaxTicks == 1

(***************************************************************************)
(* Helpers.                                                                *)
(***************************************************************************)
Last(s) == s[Len(s)]

RECURSIVE SetToSeq(_)
SetToSeq(S) ==
    IF S = {} THEN <<>>
    ELSE LET x == CHOOSE y \in S : TRUE IN <<x>> \o SetToSeq(S \ {x})

(***************************************************************************)
(* Progress notifier: io.on('connection') and socket.on('join-upload').    *)
(* Room names are strings, modelled as sequences of characters so that     *)
(* String.prototype.startsWith is computed and not assumed.                *)
(***************************************************************************)
Sockets == {"s1", "s2"}

UploadPrefix == <<"u", "p", "l", "o", "a", "d", "_">>

\* The room every socket is in from its connection on: the room of its own id.
SocketIdRoom(s) == <<"s", "i", "d", "-", s>>

\* Session ids a client may announce: with the 'upload_' prefix and without it.
UploadIds ==
    { UploadPrefix \o <<"1">>,
      UploadPrefix \o <<"2">>,
      <<"a", "b", "c">>,
      <<"u", "p", "l", "o", "a", "d">> }

StartsWith(str, prefix) ==
    /\ Len(str) >= Len(prefix)
    /\ SubSeq(str, 1, Len(prefix)) = prefix

\* The handler's guard on each room of socket.rooms.
IsUploadRoom(room) == StartsWith(room, UploadPrefix)

\* The statements the 'join-upload' handler executes, in order.
JoinUploadEmitFirst(rs, uploadId) ==
    SetToSeq({ [op |-> "leave", room |-> r] : r \in { x \in rs : IsUploadRoom(x) } })
    \o << [op |-> "emit", event |-> "room-joined", uploadId |-> uploadId, status |-> "ready"],
          [op |-> "join", room |-> uploadId] >>

JoinUploadEffects(rs, uploadId) ==
    SetToSeq({ [op |-> "leave", room |-> r] : r \in { x \in rs : IsUploadRoom(x) } })
    \o << [op |-> "join", room |-> uploadId],
          [op |-> "emit", event |-> "room-joined", uploadId |-> uploadId, status |-> "ready"] >>

RECURSIVE RoomsAfter(_, _)
RoomsAfter(rs, effects) ==
    IF effects = <<>> THEN rs
    ELSE LET e == Head(effects) IN
         RoomsAfter(
             CASE e.op = "leave" -> rs \ {e.room}
               [] e.op = "join"  -> rs \cup {e.room}
               [] OTHER          -> rs,
             Tail(effects))

RECURSIVE EmittedBy(_)
EmittedBy(effects) ==
    IF effects = <<>> THEN <<>>
    ELSE LET e == Head(effects) IN
         (IF e.op = "emit"
            THEN << [event |-> e.event, uploadId |-> e.uploadId, status |-> e.status] >>
            ELSE <<>>)
         \o EmittedBy(Tail(effects))

InitSock ==
    /\ connected = {}
    /\ rooms = [s \in Sockets |-> {}]
    /\ outbox = [s \in Sockets |-> <<>>]
    /\ joinLog = [s \in Sockets |-> <<>>]
    /\ lastEffects = [socket |-> "none", effects |-> <<>>]
    /\ joinedAt = [s \in Sockets |-> <<>>]

Connect(s) ==
    /\ s \notin connected
    /\ connected' = connected \cup {s}
    /\ rooms' = [rooms EXCEPT ![s] = {SocketIdRoom(s)}]
    /\ UNCHANGED <<outbox, joinLog, lastEffects, joinedAt>>

JoinUpload(s, uploadId) ==
    /\ s \in connected
    /\ Len(joinLog[s]) < MaxJoins
    /\ LET effects == JoinUploadEffects(rooms[s], uploadId) IN
         /\ rooms' = [rooms EXCEPT ![s] = RoomsAfter(rooms[s], effects)]
         /\ outbox' = [outbox EXCEPT ![s] = outbox[s] \o EmittedBy(effects)]
         /\ lastEffects' = [socket |-> s, effects |-> effects]
    /\ joinLog' = [joinLog EXCEPT ![s] = Append(joinLog[s], uploadId)]
    /\ joinedAt' = [joinedAt EXCEPT ![s] = Append(joinedAt[s], [room |-> uploadId, at |-> Len(trace)])]
    /\ UNCHANGED connected

\* socket.on('disconnect') only logs; Socket.IO itself empties socket.rooms.
Disconnect(s) ==
    /\ s \in connected
    /\ connected' = connected \ {s}
    /\ rooms' = [rooms EXCEPT ![s] = {}]
    /\ UNCHANGED <<outbox, joinLog, lastEffects, joinedAt>>

\* io.to(uploadId): the sockets that are in the room when the event is emitted.
Broadcast(uploadId) == connected

Recipients(uploadId) == { s \in connected : uploadId \in rooms[s] }

\* io.to(uploadId).emit('upload-progress', ...): the outboxes after the
\* events were sent to the room.
EmitToRoom(box, uploadId, events) ==
    [s \in Sockets |-> IF s \in Recipients(uploadId) THEN box[s] \o events ELSE box[s]]

(***************************************************************************)
(* Compression engine: VideoCompressionService.compressVideoBuffer.        *)
(***************************************************************************)
Calls == {"c1", "c2"}
Buffers == {"v1", "v2"}
Absent == "absent"
Partial == "partial"

InputPath(t) == <<"input", t>>
OutputPath(t) == <<"output", t>>
TempPaths == { InputPath(t) : t \in 0..MaxClock } \cup { OutputPath(t) : t \in 0..MaxClock }

\* What the transcoder writes for an input it can read.
Encoded(content) == <<"h264", content>>

IdleCall == [pc |-> "idle", buffer |-> "none", inputPath |-> <<>>, outputPath |-> <<>>,
             settled |-> "none", result |-> "none"]

\* cleanupTempFiles: unlink every path that exists; a failing unlink is swallowed.
cleanupTempFiles(dir, paths, unlinkFails) ==
    [ p \in DOMAIN dir |->
        IF p \in paths /\ dir[p] # Absent /\ p \notin unlinkFails THEN Absent ELSE dir[p] ]

InitComp ==
    /\ clock = 0
    /\ tempDir = [p \in TempPaths |-> Absent]
    /\ calls = [c \in Calls |-> IdleCall]

Tick ==
    /\ clock < MaxClock
    /\ clock' = clock + 1
    /\ UNCHANGED <<tempDir, calls>>

\* The promise executor up to .run(): both Date.now() reads and writeFileSync.
\* The clock may advance between the two reads. writeFileSync either writes the
\* whole buffer, fails before creating the file, or fails after creating it.
CompressStart(c, buffer, write) ==
    /\ calls[c].pc = "idle"
    /\ \E tOut \in {clock, clock + 1} \cap (0..MaxClock) :
         LET inP == InputPath(clock)
             outP == OutputPath(tOut) IN
           /\ clock' = tOut
           /\ CASE write = "ok" ->
                     /\ tempDir' = [tempDir EXCEPT ![inP] = buffer]
                     /\ calls' = [calls EXCEPT ![c] =
                            [pc |-> "running", buffer |-> buffer, inputPath |-> inP,
                             outputPath |-> outP, settled |-> "none", result |-> "none"]]
                [] write = "failNoFile" ->
                     /\ tempDir' = tempDir
                     /\ calls' = [calls EXCEPT ![c] =
                            [pc |-> "settled", buffer |-> buffer, inputPath |-> inP,
                             outputPath |-> outP, settled |-> "writeError", result |-> "none"]]
                [] write = "failPartial" ->
                     /\ tempDir' = [tempDir EXCEPT ![inP] = Partial]
                     /\ calls' = [calls EXCEPT ![c] =
                            [pc |-> "settled", buffer |-> buffer, inputPath |-> inP,
                             outputPath |-> outP, settled |-> "writeError", result |-> "none"]]

\* The transcoder process reads the input file and writes the output file.
FfmpegEncode(c) ==
    /\ calls[c].pc = "running"
    /\ tempDir[calls[c].inputPath] \in Buffers
    /\ tempDir' = [tempDir EXCEPT ![calls[c].outputPath] = Encoded(tempDir[calls[c].inputPath])]
    /\ calls' = [calls EXCEPT ![c].pc = "encoded"]
    /\ UNCHANGED clock

\* .on('error'): the transcoder failed, possibly leaving a partial output file.
FfmpegError(c, partialOut, unlinkFails) ==
    /\ calls[c].pc = "running"
    /\ LET dir == IF partialOut
                    THEN [tempDir EXCEPT ![calls[c].outputPath] = Partial]
                    ELSE tempDir IN
         tempDir' = cleanupTempFiles(dir, {calls[c].inputPath, calls[c].outputPath}, unlinkFails)
    /\ calls' = [calls EXCEPT ![c].pc = "settled", ![c].settled = "transcoderError"]
    /\ UNCHANGED clock

\* .on('end'): read the output file, clean up, resolve; a failing read rejects.
FfmpegEnd(c, readFails, unlinkFails) ==
    /\ calls[c].pc = "encoded"
    /\ LET out == tempDir[calls[c].outputPath]
           paths == {calls[c].inputPath, calls[c].outputPath} IN
         /\ tempDir' = cleanupTempFiles(tempDir, paths, unlinkFails)
         /\ IF readFails \/ out = Absent
              THEN calls' = [calls EXCEPT ![c].pc = "settled", ![c].settled = "readError"]
              ELSE calls' = [calls EXCEPT ![c].pc = "settled", ![c].settled = "resolved",
                                          ![c].result = out]
    /\ UNCHANGED clock

(***************************************************************************)
(* Storage uploaders: delete by publicId (S3Service, CloudinaryService).   *)
(* A call returns [raised, value, store]: whether it threw, the value it   *)
(* returned, and the store afterwards. `fault` is a failure of the request *)
(* to the remote store itself (network, credentials).                      *)
(***************************************************************************)
Uploaders == {"s3", "cloudinary"}
NoMedia == "null"
NoRecord == [table |-> "none", publicId |-> "null", project |-> "none"]

MediaKeys == {"k1", "k3", "k4", "k5", "k6"}
ResourceType(key) == IF key \in {"k1", "k6"} THEN "video" ELSE "image"

\* The objects the direct delete calls are tried on: a video and two images.
DirectKeys == {"k1", "k3", "k4"}

Threw(st) == [raised |-> TRUE, value |-> FALSE, store |-> st]
Returned(v, st) == [raised |-> FALSE, value |-> v, store |-> st]

\* s3.deleteObject succeeds whether or not the key exists.
S3Service_deleteImage(st, key, fault) ==
    IF fault THEN Threw(st) ELSE Returned(TRUE, st \ {key})

S3Service_deleteVideo(st, key, fault) ==
    IF fault THEN Threw(st) ELSE Returned(TRUE, st \ {key})

\* cloudinary.uploader.destroy(publicId): resource_type defaults to 'image';
\* the answer is {result: 'ok'} or {result: 'not found'}.
CloudinaryDestroy(st, key) ==
    IF key \in st /\ ResourceType(key) = "image"
      THEN [result |-> "ok", store |-> st \ {key}]
      ELSE [result |-> "not found", store |-> st]

CloudinaryDeleteRejectsMissing(st, key, fault) ==
    IF fault \/ CloudinaryDestroy(st, key).result # "ok"
      THEN Threw(st)
      ELSE Returned(TRUE, CloudinaryDestroy(st, key).store)

CloudinaryService_deleteImage(st, key, fault) ==
    IF fault THEN Threw(st)
    ELSE LET r == CloudinaryDestroy(st, key) IN Returned(r.result = "ok", r.store)

\* CloudinaryService defines no deleteVideo: the call is a TypeError.
CloudinaryService_deleteVideo(st, key, fault) == Threw(st)

deleteImage(svc, st, key, fault) ==
    IF svc = "s3" THEN S3Service_deleteImage(st, key, fault)
    ELSE CloudinaryService_deleteImage(st, key, fault)

deleteVideo(svc, st, key, fault) ==
    IF svc = "s3" THEN S3Service_deleteVideo(st, key, fault)
    ELSE CloudinaryService_deleteVideo(st, key, fault)

RemovedAfter(method, key, res) ==
    IF ~res.raised /\ res.value THEN removed \cup {<<method, key>>} ELSE removed

(***************************************************************************)
(* Database rows that own media, and the operations that delete them.      *)
(***************************************************************************)
Row(table, publicId, project) == [table |-> table, publicId |-> publicId, project |-> project]

InitialRows ==
    [ e1  |-> Row("homepage_elements", "k1", "none"),
      p1  |-> Row("portfolio_projects", "k3", "none"),
      i1  |-> Row("portfolio_project_images", "k3", "p1"),
      i2  |-> Row("portfolio_project_images", "k4", "p1"),
      sc1 |-> Row("portfolio_subcategories", "k5", "none"),
      pv1 |-> Row("portfolio_project_videos", "k6", "p1") ]

RecordIds == DOMAIN InitialRows
IdsOf(table) == { id \in RecordIds : InitialRows[id].table = table }

NoOp == [op |-> "none", id |-> "none", existed |-> FALSE, dbError |-> FALSE,
         remoteFailed |-> FALSE, raised |-> FALSE, repeated |-> FALSE, fault |-> FALSE]

Op(op, id, existed, dbError, remoteFailed, raised) ==
    [op |-> op, id |-> id, existed |-> existed, dbError |-> dbError,
     remoteFailed |-> remoteFailed, raised |-> raised, repeated |-> FALSE,
     fault |-> remoteFailed]

IdleDel ==
    /\ mediaService = "s3"
    /\ store = {}
    /\ db = [id \in RecordIds |-> NoRecord]
    /\ removed = {}
    /\ lastOp = NoOp

InitDel ==
    /\ mediaService \in Uploaders
    /\ store = { InitialRows[id].publicId : id \in RecordIds } \ {NoMedia}
    /\ db = InitialRows
    /\ removed = {}
    /\ lastOp = NoOp

\* A direct call of the uploader's delete operation.
UploaderDelete(method, key, fault) ==
    LET res == IF method = "deleteImage" THEN deleteImage(mediaService, store, key, fault)
               ELSE deleteVideo(mediaService, store, key, fault) IN
      /\ store' = res.store
      /\ removed' = RemovedAfter(method, key, res)
      /\ lastOp' = [op |-> method, id |-> key, existed |-> key \in store, dbError |-> FALSE,
                    remoteFailed |-> res.raised, raised |-> res.raised,
                    repeated |-> <<method, key>> \in removed, fault |-> fault]
      /\ UNCHANGED <<mediaService, db>>

\* HomepageService.deleteHomepageElement: row first, then the media, caught.
deleteHomepageElement(id, dbError, fault) ==
    LET row == db[id] IN
      IF row = NoRecord THEN
        /\ lastOp' = Op("deleteHomepageElement", id, FALSE, dbError, FALSE, TRUE)
        /\ UNCHANGED <<mediaService, store, db, removed>>
      ELSE IF dbError THEN
        /\ lastOp' = Op("deleteHomepageElement", id, TRUE, TRUE, FALSE, TRUE)
        /\ UNCHANGED <<mediaService, store, db, removed>>
      ELSE
        LET res == IF row.publicId # NoMedia
                     THEN deleteImage(mediaService, store, row.publicId, fault)
                     ELSE Returned(TRUE, store) IN
          /\ db' = [db EXCEPT ![id] = NoRecord]
          /\ store' = res.store
          /\ UNCHANGED removed
          /\ lastOp' = Op("deleteHomepageElement", id, TRUE, FALSE, res.raised, FALSE)
          /\ UNCHANGED mediaService

\* PortfolioService.deleteProject: the media first, uncaught, then the row.
PortfolioService_deleteProject(id, dbError, fault) ==
    LET row == db[id] IN
      IF row = NoRecord THEN
        /\ lastOp' = Op("PortfolioService.deleteProject", id, FALSE, dbError, FALSE, TRUE)
        /\ UNCHANGED <<mediaService, store, db, removed>>
      ELSE
        LET res == IF row.publicId # NoMedia
                     THEN deleteImage(mediaService, store, row.publicId, fault)
                     ELSE Returned(TRUE, store) IN
          /\ store' = res.store
          /\ UNCHANGED removed
          /\ db' = IF res.raised \/ dbError THEN db ELSE [db EXCEPT ![id] = NoRecord]
          /\ lastOp' = Op("PortfolioService.deleteProject", id, TRUE, dbError, res.raised,
                          res.raised \/ dbError)
          /\ UNCHANGED mediaService

\* PortfolioService.deleteSubcategory: the media first, uncaught, then the row;
\* a missing row is not an error.
deleteSubcategory(id, dbError, fault) ==
    LET row == db[id]
        hasMedia == row # NoRecord /\ row.publicId # NoMedia
        res == IF hasMedia THEN deleteImage(mediaService, store, row.publicId, fault)
               ELSE Returned(TRUE, store) IN
      /\ store' = res.store
      /\ UNCHANGED removed
      /\ db' = IF res.raised \/ dbError THEN db ELSE [db EXCEPT ![id] = NoRecord]
      /\ lastOp' = Op("deleteSubcategory", id, row # NoRecord, dbError, res.raised,
                      res.raised \/ dbError)
      /\ UNCHANGED mediaService

\* PortfolioService.deleteProjectVideo: row first, then the media, uncaught.
deleteProjectVideo(id, dbError, fault) ==
    LET row == db[id] IN
      IF row = NoRecord \/ dbError THEN
        /\ lastOp' = Op("deleteProjectVideo", id, row # NoRecord, dbError, FALSE, TRUE)
        /\ UNCHANGED <<mediaService, store, db, removed>>
      ELSE
        LET res == IF row.publicId # NoMedia
                     THEN deleteVideo(mediaService, store, row.publicId, fault)
                     ELSE Returned(TRUE, store) IN
          /\ db' = [db EXCEPT ![id] = NoRecord]
          /\ store' = res.store
          /\ UNCHANGED removed
          /\ lastOp' = Op("deleteProjectVideo", id, TRUE, FALSE, res.raised, res.raised)
          /\ UNCHANGED mediaService

\* PortfolioController.deleteProjectImage: s3Service.deleteImage, caught, then
\* the row, then the project's main image is repointed or cleared.
ImagesOf(rows, project) ==
    { i \in IdsOf("portfolio_project_images") : rows[i] # NoRecord /\ rows[i].project = project }

deleteProjectImage(id, dbError, fault) ==
    LET row == db[id] IN
      IF row = NoRecord THEN
        /\ lastOp' = Op("deleteProjectImage", id, FALSE, dbError, FALSE, TRUE)
        /\ UNCHANGED <<mediaService, store, db, removed>>
      ELSE
        LET res == IF row.publicId # NoMedia
                     THEN S3Service_deleteImage(store, row.publicId, fault)
                     ELSE Returned(TRUE, store)
            rows1 == [db EXCEPT ![id] = NoRecord]
            proj == row.project
            others == ImagesOf(rows1, proj)
            rows2 == IF rows1[proj] # NoRecord /\ rows1[proj].publicId = row.publicId
                       THEN [rows1 EXCEPT ![proj].publicId =
                               IF others # {}
                                 THEN rows1[CHOOSE i \in others : TRUE].publicId
                                 ELSE NoMedia]
                       ELSE rows1 IN
          /\ store' = res.store
          /\ UNCHANGED removed
          /\ db' = IF dbError THEN db ELSE rows2
          /\ lastOp' = Op("deleteProjectImage", id, TRUE, dbError, res.raised, dbError)
          /\ UNCHANGED mediaService

\* PortfolioController.deleteProject: every image of the project through
\* s3Service.deleteImage, caught; the image rows; then the project row.
RECURSIVE DeleteAll(_, _, _)
DeleteAll(st, keys, fault) ==
    IF keys = {} THEN st
    ELSE LET k == CHOOSE x \in keys : TRUE IN
         DeleteAll(S3Service_deleteImage(st, k, fault).store, keys \ {k}, fault)

PortfolioController_deleteProject(id, dbError, fault) ==
    LET imgs == ImagesOf(db, id)
        keys == { db[i].publicId : i \in imgs } \ {NoMedia}
        rows1 == [ r \in RecordIds |-> IF r \in imgs THEN NoRecord ELSE db[r] ] IN
      /\ store' = DeleteAll(store, keys, fault)
      /\ UNCHANGED removed
      /\ db' = IF dbError THEN rows1 ELSE [rows1 EXCEPT ![id] = NoRecord]
      /\ lastOp' = Op("PortfolioController.deleteProject", id, db[id] # NoRecord, dbError,
                      fault /\ keys # {}, dbError)
      /\ UNCHANGED mediaService

(***************************************************************************)
(* Upload pipeline: one create request, step by step. Every awaited call   *)
(* of the handler is one step; `trace` records the effects in the order    *)
(* the code performs them.                                                 *)
(***************************************************************************)
BytesPerMB == 1024 * 1024

VideoExtensions == {"mp4", "mov", "avi", "wmv", "flv", "webm"}
Extensions == {"mp4", "png"}
Sizes == {1, 10 * BytesPerMB + 1, 50 * BytesPerMB, 50 * BytesPerMB + 1, 200 * BytesPerMB}
Files == [ext : Extensions, size : Sizes]

NoBuffer == [id |-> "none", size |-> 0]
\* file.buffer
Original(f) == [id |-> "original", size |-> f.size]
\* compressionResult.buffer: the transcoder's output, of whatever size it has
CompressedSizes == {40 * BytesPerMB, 60 * BytesPerMB}
Compressed(size) == [id |-> "h264", size |-> size]
\* the output of sharp
Processed(size) == [id |-> "sharp", size |-> size]

\* How a compressVideoBuffer call settles (the settled field of a call).
\* progress.percent of the transcoder's 'progress' event (0 when it has none)
Percents == {0, 50}

CompressOutcomes == {"resolved", "transcoderError", "writeError", "readError"}

\* VideoCompressionService.shouldCompress: sizeMB = buffer.length / (1024 * 1024),
\* an exact quotient (whole part and remainder), compared with targetSizeMB.
shouldCompressTruncated(buffer, targetSizeMB) ==
    buffer.size \div BytesPerMB > targetSizeMB

shouldCompress(buffer, targetSizeMB) ==
    LET whole == buffer.size \div BytesPerMB
        rest == buffer.size % BytesPerMB IN
      whole > targetSizeMB \/ (whole = targetSizeMB /\ rest > 0)

\* videoExtensions.includes(fileExtension)
IsVideo(f) == f.ext \in VideoExtensions

\* uploadId = null, the default: no progress session (falsy, as '' is)
NoUploadId == << >>

Kinds == {"createHomepageElement", "bulkUploadElements", "createProject", "uploadProjectVideo"}

Request(kind, typeValid, files, uploadId) ==
    [kind |-> kind, typeValid |-> typeValid, files |-> files, uploadId |-> uploadId,
     i |-> 1, pc |-> "start", needs |-> FALSE, cres |-> "none",
     uploadBuffer |-> NoBuffer, keys |-> <<>>, error |-> "none",
     session |-> uploadId, via |-> "service", audio |-> "none",
     attempts |-> 0, quality |-> 95]

NoRequest == Request("none", TRUE, <<>>, NoUploadId)

Entry(op, file, ok, body, info, media) ==
    [op |-> op, file |-> file, ok |-> ok, body |-> body, info |-> info, media |-> media]

\* onProgress(progress) of createHomepageElement: an 'upload-progress' event
\* to the room uploadId; S3Service.uploadVideo is the uploader that calls it,
\* and only when an uploadId was given.
HasOnProgress(r, svc) == svc = "s3" /\ r.uploadId # NoUploadId

\* The percentage an event carries, in the buffer slot of a trace entry.
Percent(p) == [id |-> "percent", size |-> p]

\* onProgress calls of uploadVideo without the one before the store upload
OnProgressCompressingOnly(r, svc, status) ==
    IF HasOnProgress(r, svc) /\ status = "compressing"
      THEN << Entry("progress", r.i, TRUE, Percent(0), status, {}) >>
      ELSE << >>

OnProgress(r, svc, status) ==
    IF HasOnProgress(r, svc)
      THEN << Entry("progress", r.i, TRUE, Percent(0), status, {}) >>
      ELSE << >>

\* The 'upload-progress' events the entries of a trace stand for; n is the
\* number of effects of the request before them.
RECURSIVE ProgressEvents(_, _, _)
ProgressEvents(r, entries, n) ==
    IF entries = << >> THEN << >>
    ELSE (IF Head(entries).op = "progress"
            THEN << [event |-> "upload-progress", uploadId |-> r.uploadId,
                     status |-> Head(entries).info, progress |-> Head(entries).body.size,
                     seq |-> n + 1] >>
            ELSE << >>)
         \o ProgressEvents(r, Tail(entries), n + 1)

\* HomepageController.createHomepageElement: the service is called with
\* three arguments, whatever session id the client sent with the request.
HomepageController_createHomepageElement(typeValid, files, session) ==
    [Request("createHomepageElement", typeValid, files, NoUploadId)
       EXCEPT !.session = session, !.via = "http"]

\* Whether the uploader call of the current file is uploadVideo.
IsVideoCall(r) ==
    \/ r.kind = "uploadProjectVideo"
    \/ r.kind \in {"createHomepageElement", "bulkUploadElements"} /\ IsVideo(r.files[r.i])

\* The record of the content the current insert writes, as the set of the
\* files that are its media.
MediaOf(r) ==
    IF r.kind = "createProject" THEN 1..Len(r.files)
    ELSE IF r.files = <<>> THEN {} ELSE {r.i}

\* The first step of the uploader call: S3Service ensures the folder first.
UploadVideoEntry(svc) == IF svc = "s3" THEN "createFolder" ELSE "shouldCompress"
UploadImageEntry(svc) == IF svc = "s3" THEN "createFolder" ELSE "uploadImage"

AfterStart(r, svc) ==
    CASE r.kind = "createHomepageElement" ->
             IF ~r.typeValid THEN "failed"
             ELSE IF r.files = <<>> THEN "insert" ELSE "classify"
      [] r.kind = "bulkUploadElements" -> "classify"
      [] r.kind = "createProject" -> "insertProject"
      [] OTHER -> IF r.typeValid THEN UploadVideoEntry(svc) ELSE "failed"

AfterClassify(r, svc) ==
    IF IsVideo(r.files[r.i]) THEN UploadVideoEntry(svc) ELSE UploadImageEntry(svc)

AfterCreateFolder(r) == IF IsVideoCall(r) THEN "shouldCompress" ELSE "uploadImage"

SkipCompression(needs) == "upload"

AfterShouldCompress(needs) == IF needs THEN "compress" ELSE "upload"

\* The catch around compressVideoBuffer: fall back to the original buffer.
RethrowCompressionError(r, outcome, size) ==
    IF outcome = "resolved"
      THEN [r EXCEPT !.cres = outcome, !.uploadBuffer = Compressed(size), !.pc = "upload"]
      ELSE [r EXCEPT !.cres = outcome, !.pc = "failed", !.error = "compression"]

AfterCompress(r, outcome, size) ==
    IF outcome = "resolved"
      THEN [r EXCEPT !.cres = outcome, !.uploadBuffer = Compressed(size), !.pc = "upload"]
      ELSE [r EXCEPT !.cres = outcome, !.uploadBuffer = Original(r.files[r.i]), !.pc = "upload"]

AfterUpload(r) ==
    IF r.kind = "createProject"
      THEN IF r.i < Len(r.files) THEN "nextImage" ELSE "insertImages"
      ELSE "insert"

AfterInsert(r) ==
    IF r.kind = "bulkUploadElements" /\ r.i < Len(r.files) THEN "classify" ELSE "done"

Fail(r, cause) == [r EXCEPT !.pc = "failed", !.error = cause]

IdleUp ==
    /\ up = NoRequest
    /\ trace = <<>>

InitUp ==
    /\ trace = <<>>
    /\ \/ \E tv \in BOOLEAN, f \in Files, id \in {NoUploadId, <<"X">>} :
            up \in { Request("createHomepageElement", tv, <<f>>, id),
                     Request("createHomepageElement", tv, <<>>, id) }
       \/ \E f \in Files, g \in Files :
            up \in { Request("bulkUploadElements", TRUE, <<f>>, NoUploadId),
                     Request("bulkUploadElements", TRUE, <<f, g>>, NoUploadId) }
       \/ \E f \in Files, g \in Files :
            up \in { Request("createProject", TRUE, <<>>, NoUploadId),
                     Request("createProject", TRUE, <<f>>, NoUploadId),
                     Request("createProject", TRUE, <<f, g>>, NoUploadId) }
       \/ \E exists \in BOOLEAN, f \in Files :
            up = Request("uploadProjectVideo", exists, <<f>>, NoUploadId)

\* The handler up to its first awaited upload or insert: type validation
\* (createHomepageElement), the subcategory lookup (createProject), the
\* project lookup (uploadProjectVideo); typeValid stands for its outcome.
StepStart(lookupOk) ==
    /\ up.pc = "start"
    /\ up' = IF up.kind = "createProject" /\ ~lookupOk THEN Fail(up, "lookup")
             ELSE IF AfterStart(up, mediaService) = "failed" THEN Fail(up, "validation")
             ELSE [up EXCEPT !.pc = AfterStart(up, mediaService)]
    /\ UNCHANGED trace

StepClassify ==
    /\ up.pc = "classify"
    /\ trace' = Append(trace, Entry("classify", up.i, TRUE, NoBuffer,
                                    IF IsVideo(up.files[up.i]) THEN "video" ELSE "image", {}))
    /\ up' = [up EXCEPT !.pc = AfterClassify(up, mediaService), !.needs = FALSE,
                        !.cres = "none", !.uploadBuffer = Original(up.files[up.i])]

\* S3Service.createFolder: its failures are logged and swallowed.
StepCreateFolder(ok) ==
    /\ up.pc = "createFolder"
    /\ trace' = Append(trace, Entry("createFolder", up.i, ok, NoBuffer, "folder", {}))
    /\ up' = [up EXCEPT !.pc = AfterCreateFolder(up),
                        !.uploadBuffer = IF IsVideoCall(up) THEN Original(up.files[up.i])
                                         ELSE up.uploadBuffer]

\* emitRaises: the onProgress call, when there is one, throws; it is inside
\* uploadVideo's try and outside the try around compressVideoBuffer.
StepShouldCompress(emitRaises) ==
    /\ up.pc = "shouldCompress"
    /\ LET needs == shouldCompress(Original(up.files[up.i]), 50)
           called == needs /\ HasOnProgress(up, mediaService)
           added == << Entry("shouldCompress", up.i, needs, NoBuffer, "50", {}) >>
                      \o (IF called /\ ~emitRaises
                            THEN OnProgress(up, mediaService, "compressing") ELSE << >>) IN
         /\ emitRaises => called
         /\ trace' = trace \o added
         /\ outbox' = EmitToRoom(outbox, up.uploadId, ProgressEvents(up, added, Len(trace)))
         /\ up' = IF emitRaises THEN Fail([up EXCEPT !.needs = needs], "progress")
                  ELSE [up EXCEPT !.needs = needs, !.pc = AfterShouldCompress(needs),
                                  !.uploadBuffer = Original(up.files[up.i])]

\* The transcoder's 'progress' event while the compression runs: forwarded
\* to onProgress when it carries a percentage and a callback was given. A
\* callback that throws does so inside the event handler, outside every try.
StepCompressProgress(percent, emitRaises) ==
    /\ up.pc = "compress"
    /\ Cardinality({ k \in 1..Len(trace) : trace[k].op = "ffmpegProgress" }) < MaxTicks
    /\ LET called == percent # 0 /\ HasOnProgress(up, mediaService)
           added == << Entry("ffmpegProgress", up.i, TRUE, Percent(percent), "compressing", {}) >>
                      \o (IF called /\ ~emitRaises
                            THEN << Entry("progress", up.i, TRUE, Percent(percent),
                                          "compressing", {}) >>
                            ELSE << >>) IN
         /\ emitRaises => called
         /\ trace' = trace \o added
         /\ outbox' = EmitToRoom(outbox, up.uploadId, ProgressEvents(up, added, Len(trace)))
         /\ up' = IF emitRaises THEN Fail(up, "progress") ELSE up

\* The options uploadVideo of each uploader gives to compressVideoBuffer.
CompressionOptions(svc) ==
    [targetSizeMB |-> 50, quality |-> "medium", removeAudio |-> (svc = "cloudinary")]

\* The audio options of the transcoder command: '-an', or '-c:a aac -b:a 128k'.
AudioOptions(removeAudio) == IF removeAudio THEN "-an" ELSE "aac 128k"

StepCompress(outcome, size) ==
    /\ up.pc = "compress"
    /\ trace' = Append(trace, Entry("compress", up.i, outcome = "resolved",
                                    Original(up.files[up.i]), outcome, {}))
    /\ up' = [AfterCompress(up, outcome, size)
               EXCEPT !.audio = AudioOptions(CompressionOptions(mediaService).removeAudio)]

\* The key (publicId) the uploader gives the object of the request's i-th file.
UploadKey(i) == IF i = 1 THEN "u1" ELSE "u2"

\* The remote-store upload of uploadVideo, with the buffer chosen before.
StepUpload(ok, emitRaises) ==
    /\ up.pc = "upload"
    /\ LET added == IF emitRaises THEN << >>
                    ELSE OnProgress(up, mediaService, "uploading")
                           \o << Entry("upload", up.i, ok, up.uploadBuffer, "video", {}) >> IN
         /\ emitRaises => HasOnProgress(up, mediaService) /\ ok
         /\ trace' = trace \o added
         /\ outbox' = EmitToRoom(outbox, up.uploadId, ProgressEvents(up, added, Len(trace)))
         /\ store' = IF ok /\ ~emitRaises THEN store \cup {UploadKey(up.i)} ELSE store
         /\ up' = IF emitRaises THEN Fail(up, "progress")
                  ELSE IF ok THEN [up EXCEPT !.pc = AfterUpload(up),
                                             !.keys = Append(up.keys, up.i)]
                  ELSE Fail(up, "upload")

\* createProject's recompression of an image over 10MB: sharp re-encodes
\* file.buffer at quality 95, 85, ... while quality >= 20, until an output is
\* at most 10MB. fitAt is the first attempt whose output fits (0 when none
\* does); the result holds the number of sharp calls made, the quality the
\* loop ends with and the size of the last output.
FitAttempts == {0, 1, 2, 8, 9}

RECURSIVE RecompressLoopToZero(_, _, _)
RecompressLoopToZero(quality, attempt, fitAt) ==
    IF quality < 0
      THEN [fits |-> FALSE, attempts |-> attempt - 1, quality |-> quality,
            size |-> 10 * BytesPerMB + 1]
    ELSE IF attempt = fitAt
      THEN [fits |-> TRUE, attempts |-> attempt, quality |-> quality,
            size |-> 10 * BytesPerMB]
    ELSE RecompressLoopToZero(quality - 10, attempt + 1, fitAt)

RECURSIVE RecompressLoop(_, _, _)
RecompressLoop(quality, attempt, fitAt) ==
    IF quality < 20
      THEN [fits |-> FALSE, attempts |-> attempt - 1, quality |-> quality,
            size |-> 10 * BytesPerMB + 1]
    ELSE IF attempt = fitAt
      THEN [fits |-> TRUE, attempts |-> attempt, quality |-> quality,
            size |-> 10 * BytesPerMB]
    ELSE RecompressLoop(quality - 10, attempt + 1, fitAt)

\* The body of createProject's loop over the files up to the uploadImage
\* call. sharpThrows: a sharp call of the recompression rejects, which ends
\* the request through the outer catch.
StepNextImage(fitAt, sharpThrows) ==
    /\ up.pc = "nextImage" \/ (up.pc = "recompress")
    /\ LET j == IF up.pc = "nextImage" THEN up.i + 1 ELSE up.i
           f == up.files[j]
           big == f.size > 10 * BytesPerMB
           loop == RecompressLoop(95, 1, fitAt)
           at == [up EXCEPT !.i = j,
                            !.attempts = IF big /\ ~sharpThrows THEN loop.attempts ELSE 0,
                            !.quality = IF big /\ ~sharpThrows THEN loop.quality ELSE 95,
                            !.uploadBuffer = IF big /\ ~sharpThrows
                                               THEN Processed(loop.size) ELSE Original(f)] IN
         /\ sharpThrows => big
         /\ ~big => fitAt = 0
         /\ trace' = trace
         /\ up' = IF sharpThrows THEN Fail(at, "sharp")
                  ELSE IF at.uploadBuffer.size > 10 * BytesPerMB THEN Fail(at, "validation")
                  ELSE [at EXCEPT !.pc = UploadImageEntry(mediaService)]

\* uploadImage: processImageWithSharp, then the remote-store upload.
StepUploadImage(outcome) ==
    /\ up.pc = "uploadImage"
    /\ CASE outcome = "sharpError" ->
              /\ trace' = trace
              /\ store' = store
              /\ up' = Fail(up, "upload")
         [] outcome = "uploadError" ->
              /\ trace' = Append(trace, Entry("upload", up.i, FALSE, Processed(up.uploadBuffer.size),
                                              "image", {}))
              /\ store' = store
              /\ up' = Fail(up, "upload")
         [] OTHER ->
              /\ trace' = Append(trace, Entry("upload", up.i, TRUE, Processed(up.uploadBuffer.size),
                                              "image", {}))
              /\ store' = store \cup {UploadKey(up.i)}
              /\ up' = [up EXCEPT !.pc = AfterUpload(up), !.keys = Append(up.keys, up.i)]

\* createProject: the portfolio_projects row is inserted before any image is
\* uploaded.
StepInsertProject(ok) ==
    /\ up.pc = "insertProject"
    /\ trace' = Append(trace, Entry("insert", 0, ok, NoBuffer, "portfolio_projects", MediaOf(up)))
    /\ up' = IF ~ok THEN Fail(up, "db")
             ELSE IF up.files = <<>> THEN [up EXCEPT !.pc = "done"]
             ELSE [up EXCEPT !.pc = "recompress"]

\* createProject: the portfolio_project_images rows, then the main image.
StepInsertImages(ok) ==
    /\ up.pc = "insertImages"
    /\ trace' = Append(trace, Entry("insert", 0, ok, NoBuffer, "portfolio_project_images",
                                    MediaOf(up)))
    /\ up' = IF ok THEN [up EXCEPT !.pc = "done"] ELSE Fail(up, "db")

\* Whether the create path removes the uploaded object again when its
\* insert fails: never / only uploadProjectVideo ('Clean up Cloudinary if
\* database insert fails').
CompensatesNever(r) == FALSE

Compensates(r) == r.kind = "uploadProjectVideo"

\* The insert of createHomepageElement, bulkUploadElements (after the
\* order_index query) and uploadProjectVideo, which deletes the uploaded video
\* again when the insert fails; fault is a failure of that delete request.
StepInsert(ok, fault) ==
    /\ up.pc = "insert"
    /\ fault => ~ok /\ Compensates(up)
    /\ LET table == IF up.kind = "uploadProjectVideo" THEN "portfolio_project_videos"
                    ELSE "homepage_elements"
           ins == Entry("insert", IF up.files = <<>> THEN 0 ELSE up.i, ok, NoBuffer, table,
                        MediaOf(up))
           res == IF ~ok /\ Compensates(up)
                    THEN deleteVideo(mediaService, store, UploadKey(up.i), fault)
                    ELSE Returned(TRUE, store) IN
         /\ store' = res.store
         /\ trace' = IF ~ok /\ Compensates(up)
                       THEN trace \o << ins, Entry("deleteVideo", up.i, ~res.raised, NoBuffer,
                                                   "compensate", {}) >>
                       ELSE Append(trace, ins)
         /\ up' = IF ~ok THEN Fail(up, "db")
                  ELSE IF AfterInsert(up) = "classify"
                         THEN [up EXCEPT !.pc = "classify", !.i = up.i + 1]
                         ELSE [up EXCEPT !.pc = "done"]

(***************************************************************************)
(* Upload receiver: the multer middlewares of the routes, the wrapper      *)
(* handleMulterUpload of the homepage routes and the error handler.        *)
(* File names and MIME types are sequences of characters, so that          *)
(* RegExp.prototype.test and String.prototype.startsWith are computed.     *)
(***************************************************************************)
\* str contains pattern as a substring
Contains(str, pattern) ==
    \E k \in 1..(Len(str) - Len(pattern) + 1) : SubSeq(str, k, k + Len(pattern) - 1) = pattern

EndsWith(str, suffix) ==
    /\ Len(str) >= Len(suffix)
    /\ SubSeq(str, Len(str) - Len(suffix) + 1, Len(str)) = suffix

\* /a|b|c/.test(str), with the alternatives as a set: unanchored
RegexTest(alternatives, str) == \E a \in alternatives : Contains(str, a)

ImageTypes == { <<"j", "p", "e", "g">>, <<"j", "p", "g">>, <<"p", "n", "g">>, <<"g", "i", "f">>, <<"w", "e", "b", "p">> }
TeamImageTypes == { <<"j", "p", "e", "g">>, <<"j", "p", "g">>, <<"p", "n", "g">>, <<"w", "e", "b", "p">> }
VideoTypes == { <<"m", "p", "4">>, <<"m", "o", "v">>, <<"a", "v", "i">>, <<"w", "m", "v">>, <<"f", "l", "v">>, <<"w", "e", "b", "m">> }

NoLimit == 0 - 1

\* The multer instances of the route files: fileSize limit and fileFilter.
MulterConfigs ==
    [ universalUpload |->
        [fileSize |-> 500 * BytesPerMB, filter |-> "regex", types |-> ImageTypes \cup VideoTypes,
         message |-> "Only image and video files are allowed"],
      upload |->
        [fileSize |-> NoLimit, filter |-> "startsWith", types |-> { <<"i", "m", "a", "g", "e", "/">> },
         message |-> "Only image files are allowed"],
      videoUpload |->
        [fileSize |-> 500 * BytesPerMB, filter |-> "startsWith", types |-> { <<"v", "i", "d", "e", "o", "/">> },
         message |-> "Only video files are allowed"],
      mixedUpload |->
        [fileSize |-> 500 * BytesPerMB, filter |-> "startsWith", types |-> { <<"i", "m", "a", "g", "e", "/">>, <<"v", "i", "d", "e", "o", "/">> },
         message |-> "Only image and video files are allowed"],
      photoUpload |->
        [fileSize |-> 10 * BytesPerMB, filter |-> "regex", types |-> TeamImageTypes,
         message |-> "Only image files are allowed (jpeg, jpg, png, webp)"] ]

\* The upload routes: the multer instance, .single(field) or .array(field, 10),
\* and whether the middleware is wrapped in handleMulterUpload.
Routes ==
    [ homepage_elements    |-> [multer |-> "universalUpload", maxCount |-> 1, wrapped |-> TRUE],
      homepage_bulk_upload |-> [multer |-> "universalUpload", maxCount |-> 10, wrapped |-> TRUE],
      portfolio_create     |-> [multer |-> "upload", maxCount |-> 10, wrapped |-> FALSE],
      portfolio_video      |-> [multer |-> "videoUpload", maxCount |-> 1, wrapped |-> FALSE],
      portfolio_with_media |-> [multer |-> "mixedUpload", maxCount |-> 10, wrapped |-> FALSE],
      team_create          |-> [multer |-> "photoUpload", maxCount |-> 1, wrapped |-> FALSE] ]

RouteNames == DOMAIN Routes

\* path.extname(file.originalname).toLowerCase() and file.mimetype; the names
\* of the model are in lower case already.
extname(file) == file.ext

fileFilter(config, file) ==
    IF config.filter = "regex"
      THEN RegexTest(config.types, file.mimetype) /\ RegexTest(config.types, extname(file))
      ELSE \E prefix \in config.types : StartsWith(file.mimetype, prefix)

NoError == [name |-> "none", code |-> "none", message |-> "none"]
MulterError(code) == [name |-> "MulterError", code |-> code, message |-> code]
FilterError(message) == [name |-> "Error", code |-> "none", message |-> message]

\* What the multer middleware of a route hands to its callback for a request
\* of n files like `file` in the form field `field`: the files are read in
\* order; a file in a field the route does not expect, or one more than
\* maxCount, is LIMIT_UNEXPECTED_FILE; then the fileFilter; then the size
\* limit while the file is read. (No route sets limits.files, the only source
\* of LIMIT_FILE_COUNT.)
MulterMiddleware(route, n, file, field) ==
    LET config == MulterConfigs[Routes[route].multer] IN
      IF n = 0 THEN NoError
      ELSE IF field # "expected" THEN MulterError("LIMIT_UNEXPECTED_FILE")
      ELSE IF ~fileFilter(config, file) THEN FilterError(config.message)
      ELSE IF config.fileSize # NoLimit /\ file.size > config.fileSize
             THEN MulterError("LIMIT_FILE_SIZE")
      ELSE IF n > Routes[route].maxCount THEN MulterError("LIMIT_UNEXPECTED_FILE")
      ELSE NoError

NoResponse == [status |-> 0, code |-> "none", maxSize |-> "none", fileType |-> "none"]
Response(status, code, maxSize, fileType) ==
    [status |-> status, code |-> code, maxSize |-> maxSize, fileType |-> fileType]

\* errorHandler(err, req, res, next): the status by err.name, 500 otherwise
errorHandler(err) ==
    Response(CASE err.name = "ValidationError"   -> 400
               [] err.name = "UnauthorizedError" -> 401
               [] err.name = "ForbiddenError"    -> 403
               [] err.name = "NotFoundError"     -> 404
               [] OTHER                          -> 500,
             "none", "none", "none")

\* /\.(mp4|mov|avi|wmv|flv|webm)$/i.test(name)
TestVideoExtension(name) == \E t \in VideoTypes : EndsWith(name, <<".">> \o t)

\* handleMulterUpload's callback: originalname is req.file?.originalname || '',
\* and multer sets req.file only when the upload succeeded.
handleMulterUpload(err, originalname) ==
    IF err.name = "MulterError" /\ err.code = "LIMIT_FILE_SIZE" THEN
         LET isVideo == TestVideoExtension(originalname) IN
           Response(413, "FILE_TOO_LARGE", IF isVideo THEN "500MB" ELSE "50MB",
                    IF isVideo THEN "video" ELSE "image")
    ELSE IF err.name = "MulterError" /\ err.code = "LIMIT_FILE_COUNT" THEN
         Response(413, "TOO_MANY_FILES", "none", "none")
    ELSE IF err.name = "MulterError" /\ err.code = "LIMIT_UNEXPECTED_FILE" THEN
         Response(400, "UNEXPECTED_FILE", "none", "none")
    ELSE IF err.message = "Only image and video files are allowed" THEN
         Response(400, "INVALID_FILE_TYPE", "none", "none")
    ELSE errorHandler(err)

RxFiles ==
    { [ext |-> <<".", "m", "p", "4">>, mimetype |-> <<"v", "i", "d", "e", "o", "/", "m", "p", "4">>],
      [ext |-> <<".", "m", "o", "v">>, mimetype |-> <<"v", "i", "d", "e", "o", "/", "q", "u", "i", "c", "k", "t", "i", "m", "e">>],
      [ext |-> <<".", "p", "n", "g">>, mimetype |-> <<"i", "m", "a", "g", "e", "/", "p", "n", "g">>],
      [ext |-> <<".", "m", "p", "4">>, mimetype |-> <<"i", "m", "a", "g", "e", "/", "p", "n", "g">>],
      [ext |-> <<".", "t", "x", "t">>, mimetype |-> <<"t", "e", "x", "t", "/", "p", "l", "a", "i", "n">>] }
RxSizes == {1, 10 * BytesPerMB + 1, 50 * BytesPerMB + 1, 500 * BytesPerMB + 1}
FileCounts == {0, 1, 2, 10, 11}

NoRx == [route |-> "none", n |-> 0, file |-> [ext |-> << >>, mimetype |-> << >>, size |-> 0],
         field |-> "expected", pc |-> "none", err |-> NoError, res |-> NoResponse]

IdleRx == rx = NoRx


InitRx ==
    \E route \in RouteNames, n \in FileCounts, f \in RxFiles, size \in RxSizes,
       field \in {"expected", "other"} :
      rx = [NoRx EXCEPT !.route = route, !.n = n, !.field = field, !.pc = "arrived",
                        !.file = [ext |-> f.ext, mimetype |-> f.mimetype, size |-> size]]

\* The multer middleware reads the request.
Receive ==
    /\ rx.pc = "arrived"
    /\ rx' = [rx EXCEPT !.pc = "received",
                        !.err = MulterMiddleware(rx.route, rx.n, rx.file, rx.field)]

\* The callback of the middleware: next() to the route's handler, or the
\* error response of the wrapper or of the application's error handler.
UploadCallback(r) ==
    IF r.err = NoError THEN [r EXCEPT !.pc = "handler"]
    ELSE [r EXCEPT !.pc = "responded",
                   !.res = IF Routes[r.route].wrapped THEN handleMulterUpload(r.err, << >>)
                           ELSE errorHandler(r.err)]

Respond ==
    /\ rx.pc = "received"
    /\ rx' = UploadCallback(rx)

(***************************************************************************)
(* Compression engine: the options of the transcoder command               *)
(* (getPreset, getCRF, calculateBitrate). JavaScript values are records    *)
(* of a type tag, a number and a string.                                   *)
(***************************************************************************)
Num(n) == [t |-> "number", n |-> n, s |-> ""]
Str(str) == [t |-> "string", n |-> 0, s |-> str]
Fn(name) == [t |-> "function", n |-> 0, s |-> name]
Undefined == [t |-> "undefined", n |-> 0, s |-> ""]
Null == [t |-> "null", n |-> 0, s |-> ""]

Truthy(v) ==
    CASE v.t = "number" -> v.n # 0
      [] v.t = "string" -> v.s # ""
      [] v.t = "undefined" -> FALSE
      [] v.t = "null" -> FALSE
      [] OTHER -> TRUE

\* Property names every object literal inherits from Object.prototype.
ObjectPrototypeKeys == {"constructor", "toString", "valueOf", "hasOwnProperty"}

\* object[key] for an object literal: its own property, else the inherited
\* one, else undefined.
Get(object, key) ==
    IF key \in DOMAIN object THEN object[key]
    ELSE IF key \in ObjectPrototypeKeys THEN Fn(key)
    ELSE Undefined

\* value || fallback
OrElse(value, fallback) == IF Truthy(value) THEN value ELSE fallback

presets == [low |-> Str("ultrafast"), medium |-> Str("fast"), high |-> Str("medium")]
crfValues == [low |-> Num(28), medium |-> Num(23), high |-> Num(18)]

getPreset(quality) == OrElse(Get(presets, quality), Str("fast"))

getCRF(quality) == OrElse(Get(crfValues, quality), Num(23))

Max(a, b) == IF a >= b THEN a ELSE b

\* Math.floor(targetSizeBits / durationSeconds / 1000), without the minimum
calculateBitrateNoMinimum(targetSizeMB, durationSeconds) ==
    (targetSizeMB * 8 * 1024 * 1024) \div (durationSeconds * 1000)

\* Math.max(Math.floor(targetSizeMB * 8 * 1024 * 1024 / durationSeconds / 1000), 500)
calculateBitrate(targetSizeMB, durationSeconds) ==
    Max((targetSizeMB * 8 * 1024 * 1024) \div (durationSeconds * 1000), 500)

\* The values of the quality argument: the three tiers, other strings, the
\* empty string and a missing value (the key "undefined").
Qualities == {"low", "medium", "high", "ultra", "LOW", "", "undefined", "constructor"}
TargetSizes == {1, 3, 4, 50}

\* buffer.length of the input and compressedBuffer.length of the output
OriginalSizes == {1000, 50 * BytesPerMB + 1}
EncodedSizes == {500, 40 * BytesPerMB, 60 * BytesPerMB}

Abs(n) == IF n < 0 THEN 0 - n ELSE n

\* The whole part q and the remainder r of num * 10^digits / den, digit by
\* digit (num >= 0, den > 0).
RECURSIVE Scaled(_, _, _)
Scaled(num, den, digits) ==
    IF digits = 0 THEN [q |-> num \div den, r |-> num % den]
    ELSE LET s == Scaled(num, den, digits - 1) IN
           [q |-> s.q * 10 + (s.r * 10) \div den, r |-> (s.r * 10) % den]

\* (num / den * 10^shift).toFixed(digits), as the number of units of
\* 10^-digits it denotes: the nearest one, the larger in magnitude of two
\* equally near.
ToFixed(num, den, shift, digits) ==
    LET s == Scaled(Abs(num), den, shift + digits)
        n == IF 2 * s.r >= den THEN s.q + 1 ELSE s.q IN
      IF num < 0 THEN 0 - n ELSE n

\* ((originalSize - compressedBuffer.length) / originalSize * 100).toFixed(1),
\* in tenths of a percent
compressionRatio(originalSize, compressedSize) ==
    ToFixed(originalSize - compressedSize, originalSize, 2, 1)

NoCommand == [pc |-> "none", quality |-> "medium", targetSizeMB |-> 50, removeAudio |-> FALSE,
              preset |-> Undefined, crf |-> Undefined, maxrate |-> 0, bufsize |-> 0,
              audio |-> "none", originalSize |-> 0, compressedSize |-> 0,
              compressionRatio |-> 0]

IdleFf == ff = NoCommand

InitFf ==
    \E q \in Qualities, t \in TargetSizes, r \in BOOLEAN, size \in OriginalSizes :
      ff = [NoCommand EXCEPT !.pc = "called", !.quality = q, !.targetSizeMB = t,
                             !.removeAudio = r, !.originalSize = size]

\* compressVideoBuffer up to command.run(): the output options of the command.
BuildCommand ==
    /\ ff.pc = "called"
    /\ LET targetBitrate == calculateBitrate(ff.targetSizeMB, 60) IN
         ff' = [ff EXCEPT !.pc = "built",
                          !.preset = getPreset(ff.quality),
                          !.crf = getCRF(ff.quality),
                          !.maxrate = targetBitrate,
                          !.bufsize = targetBitrate * 2,
                          !.audio = AudioOptions(ff.removeAudio)]

\* The 'end' handler of the command when the output file is read: the result
\* the promise resolves with.
CommandEnd(compressedSize) ==
    /\ ff.pc = "built"
    /\ ff' = [ff EXCEPT !.pc = "resolved",
                        !.compressedSize = compressedSize,
                        !.compressionRatio = compressionRatio(ff.originalSize, compressedSize)]

(***************************************************************************)
(* Folder creation of S3Service: uploads running concurrently, each        *)
(* folderExists, then the placeholder upload, then the write of its        *)
(* object; every awaited call is one step.                                 *)
(***************************************************************************)
FolderUploads == {"u1", "u2"}
Folders == {"homepage", "photography-portfolio"}

NoFolderUpload == [folder |-> "none", pc |-> "none", exists |-> FALSE, warned |-> FALSE,
                   error |-> "none"]

IdleFolder ==
    /\ fu = [u \in FolderUploads |-> NoFolderUpload]
    /\ bucket = {}

\* The bucket holds a project's earlier objects or nothing; each upload has
\* its destination folder.
InitFolder ==
    /\ bucket \in { {}, { <<"homepage", "old.jpg">> } }
    /\ fu \in [FolderUploads -> { [NoFolderUpload EXCEPT !.folder = f, !.pc = "folderExists"] :
                                    f \in Folders }]

\* S3Service.folderExists: listObjectsV2 with Prefix folder/ and MaxKeys 1; a
\* failed request counts as no folder.
folderExists(keys, folderName, listFails) ==
    IF listFails THEN FALSE ELSE \E key \in keys : key[1] = folderName

StepFolderExists(u, listFails) ==
    /\ fu[u].pc = "folderExists"
    /\ fu' = [fu EXCEPT ![u].exists = folderExists(bucket, fu[u].folder, listFails),
                        ![u].pc = "createFolder"]
    /\ UNCHANGED bucket

\* createFolder with its catch removed: the failure reaches the upload.
createFolderRethrows(r, uploadFails) ==
    IF ~r.exists /\ uploadFails THEN [r EXCEPT !.pc = "failed", !.error = "folder"]
    ELSE [r EXCEPT !.pc = "write"]

\* S3Service.createFolder after folderExists: return when the folder exists,
\* else upload folder/.placeholder; a failure is logged and swallowed.
createFolder(r, uploadFails) ==
    [r EXCEPT !.pc = "write", !.warned = (~r.exists /\ uploadFails)]

StepCreateFolderUpload(u, uploadFails) ==
    /\ fu[u].pc = "createFolder"
    /\ fu' = [fu EXCEPT ![u] = createFolder(fu[u], uploadFails)]
    /\ bucket' = IF ~fu[u].exists /\ ~uploadFails
                   THEN bucket \cup { <<fu[u].folder, ".placeholder">> }
                   ELSE bucket

\* s3.upload of the object itself, to the key folder/<uuid>.<ext>.
StepWrite(u, uploadFails) ==
    /\ fu[u].pc = "write"
    /\ fu' = [fu EXCEPT ![u] = IF uploadFails THEN [@ EXCEPT !.pc = "failed", !.error = "upload"]
                                ELSE [@ EXCEPT !.pc = "done"]]
    /\ bucket' = IF uploadFails THEN bucket ELSE bucket \cup { <<fu[u].folder, u>> }

(***************************************************************************)
(* Homepage elements: the operations of HomepageService that write a row   *)
(* with media, one after the other, each with the failures its awaited     *)
(* calls can have. Property values are strings; "undefined" and "null"     *)
(* are the JavaScript values of those names.                               *)
(***************************************************************************)
ElementIds == IdsOf("homepage_elements")

\* The keys the uploader's uuid gives to new objects, and their URLs.
ElementKeys == {"m1", "m2"}
Url(key) == IF key = "m1" THEN "https://store/m1" ELSE "https://store/m2"

\* What uploadImage / uploadVideo of either uploader return.
UploadResult(key) == [publicId |-> key, url |-> Url(key)]
NoUploadResult == [publicId |-> "null", url |-> "null"]

\* object.name: undefined when the object has no such property
Field(object, name) == IF name \in DOMAIN object THEN object[name] ELSE "undefined"

\* .insert(payload): a property that is undefined is not sent, and the column
\* gets its default, NULL.
Inserted(value) == IF value = "undefined" THEN NoMedia ELSE value

\* .update(payload): a property that is undefined is not sent, and the column
\* keeps its value.
Updated(old, value) == IF value = "undefined" THEN old ELSE value

NoElementOp == [op |-> "none", id |-> "none", ok |-> FALSE, result |-> NoUploadResult]
ElementOp(op, id, ok, result) == [op |-> op, id |-> id, ok |-> ok, result |-> result]

IdleElement ==
    /\ mediaUrl = [id \in ElementIds |-> NoMedia]
    /\ issued = {}
    /\ lastEl = NoElementOp

\* The element of the initial rows with its video in the store, or no element.
InitElement ==
    /\ mediaService \in Uploaders
    /\ removed = {} /\ lastOp = NoOp
    /\ issued = {}
    /\ lastEl = NoElementOp
    /\ \/ /\ db = [id \in RecordIds |-> IF id \in ElementIds THEN InitialRows[id] ELSE NoRecord]
          /\ store = { InitialRows[id].publicId : id \in ElementIds }
          /\ mediaUrl = [id \in ElementIds |-> "https://store/k1"]
       \/ /\ db = [id \in RecordIds |-> NoRecord]
          /\ store = {}
          /\ mediaUrl = [id \in ElementIds |-> NoMedia]

FreshKey == CHOOSE key \in ElementKeys : key \notin issued

\* HomepageService.createHomepageElement with a media file: upload, then
\* insert media_url = uploadResult.url, media_public_id = uploadResult.publicId.
HomepageService_createHomepageElement(id, uploadOk, dbOk) ==
    /\ db[id] = NoRecord
    /\ issued # ElementKeys
    /\ LET uploadResult == UploadResult(FreshKey) IN
         IF ~uploadOk THEN
           /\ lastEl' = ElementOp("createHomepageElement", id, FALSE, NoUploadResult)
           /\ UNCHANGED <<db, store, mediaUrl, issued>>
         ELSE
           /\ store' = store \cup {uploadResult.publicId}
           /\ issued' = issued \cup {uploadResult.publicId}
           /\ lastEl' = ElementOp("createHomepageElement", id, dbOk, uploadResult)
           /\ IF dbOk
                THEN /\ db' = [db EXCEPT ![id] = Row("homepage_elements",
                                                     Inserted(Field(uploadResult, "publicId")), "none")]
                     /\ mediaUrl' = [mediaUrl EXCEPT ![id] = Inserted(Field(uploadResult, "url"))]
                ELSE UNCHANGED <<db, mediaUrl>>

\* HomepageService.bulkUploadElements, one file of the loop: upload, then
\* insert media_url = uploadResult.secure_url, media_public_id =
\* uploadResult.public_id.
bulkUploadElements(id, uploadOk, dbOk) ==
    /\ db[id] = NoRecord
    /\ issued # ElementKeys
    /\ LET uploadResult == UploadResult(FreshKey) IN
         IF ~uploadOk THEN
           /\ lastEl' = ElementOp("bulkUploadElements", id, FALSE, NoUploadResult)
           /\ UNCHANGED <<db, store, mediaUrl, issued>>
         ELSE
           /\ store' = store \cup {uploadResult.publicId}
           /\ issued' = issued \cup {uploadResult.publicId}
           /\ lastEl' = ElementOp("bulkUploadElements", id, dbOk, uploadResult)
           /\ IF dbOk
                THEN /\ db' = [db EXCEPT ![id] = Row("homepage_elements",
                                                     Inserted(Field(uploadResult, "public_id")), "none")]
                     /\ mediaUrl' = [mediaUrl EXCEPT ![id] = Inserted(Field(uploadResult, "secure_url"))]
                ELSE UNCHANGED <<db, mediaUrl>>

\* HomepageService.updateElementMedia: fetch the row; delete the old media
\* (caught); upload the new file; update media_url = uploadResult.secure_url,
\* media_public_id = uploadResult.public_id.
updateElementMedia(id, fault, uploadOk, dbOk) ==
    /\ issued # ElementKeys
    /\ LET row == db[id] IN
         IF row = NoRecord THEN
           /\ lastEl' = ElementOp("updateElementMedia", id, FALSE, NoUploadResult)
           /\ UNCHANGED <<db, store, mediaUrl, issued>>
         ELSE
           LET res == IF row.publicId # NoMedia
                        THEN deleteImage(mediaService, store, row.publicId, fault)
                        ELSE Returned(TRUE, store)
               uploadResult == UploadResult(FreshKey) IN
             IF ~uploadOk THEN
               /\ store' = res.store
               /\ lastEl' = ElementOp("updateElementMedia", id, FALSE, NoUploadResult)
               /\ UNCHANGED <<db, mediaUrl, issued>>
             ELSE
               /\ store' = res.store \cup {uploadResult.publicId}
               /\ issued' = issued \cup {uploadResult.publicId}
               /\ lastEl' = ElementOp("updateElementMedia", id, dbOk, uploadResult)
               /\ IF dbOk
                    THEN /\ db' = [db EXCEPT ![id].publicId =
                                       Updated(row.publicId, Field(uploadResult, "public_id"))]
                         /\ mediaUrl' = [mediaUrl EXCEPT ![id] =
                                            Updated(mediaUrl[id], Field(uploadResult, "secure_url"))]
                    ELSE UNCHANGED <<db, mediaUrl>>

(***************************************************************************)
(* View counter: PortfolioService.incrementViewCount, called by every      *)
(* GET of a project; requests run concurrently and each awaited query is   *)
(* one step.                                                               *)
(***************************************************************************)
Viewers == {"v1", "v2", "v3"}

NoView == [pc |-> "none", read |-> Null]

IdleViews ==
    /\ viewCount = Null
    /\ vc = [v \in Viewers |-> NoView]

\* The column is NULL or holds a count; the requests have not started.
InitViews ==
    /\ viewCount \in {Null, Num(0), Num(5)}
    /\ vc = [v \in Viewers |-> [pc |-> "select", read |-> Null]]

\* .update({ view_count: (project.view_count || 0) + 1 }): the value written,
\* from the value the select returned.
IncrementedCount(read) == Num(OrElse(read, Num(0)).n + 1)

\* select('view_count').eq('id', projectId).single()
SelectViewCount(v, fetchError) ==
    /\ vc[v].pc = "select"
    /\ vc' = [vc EXCEPT ![v] = IF fetchError THEN [@ EXCEPT !.pc = "failed"]
                                ELSE [pc |-> "update", read |-> viewCount]]
    /\ UNCHANGED viewCount

\* update({ view_count: ... }).eq('id', projectId)
UpdateViewCount(v, error) ==
    /\ vc[v].pc = "update"
    /\ viewCount' = IF error THEN viewCount ELSE IncrementedCount(vc[v].read)
    /\ vc' = [vc EXCEPT ![v].pc = IF error THEN "failed" ELSE "done"]

(***************************************************************************)
(* Specifications.                                                         *)
(***************************************************************************)
vars == <<connected, rooms, outbox, joinLog, lastEffects, clock, tempDir, calls,
          mediaService, store, db, removed, lastOp, up, trace, joinedAt, rx, ff, fu, bucket, mediaUrl, issued, lastEl,
          viewCount, vc>>

InitSocket == InitSock /\ InitComp /\ IdleViews /\ IdleElement /\ IdleFolder /\ IdleRx /\ IdleFf /\ IdleDel /\ IdleUp

NextSocket ==
    \/ \E s \in Sockets : Connect(s) /\ UNCHANGED <<viewVars, elVars, folderVars, rxVars, ffVars, compVars, delVars, upVars>>
    \/ \E s \in Sockets, id \in UploadIds : JoinUpload(s, id) /\ UNCHANGED <<viewVars, elVars, folderVars, rxVars, ffVars, compVars, delVars, upVars>>
    \/ \E s \in Sockets : Disconnect(s) /\ UNCHANGED <<viewVars, elVars, folderVars, rxVars, ffVars, compVars, delVars, upVars>>

SpecSocket == InitSocket /\ [][NextSocket]_vars

InitCompress == InitSock /\ InitComp /\ IdleViews /\ IdleElement /\ IdleFolder /\ IdleRx /\ IdleFf /\ IdleDel /\ IdleUp

NextCompress ==
    \/ Tick /\ UNCHANGED <<viewVars, elVars, folderVars, rxVars, ffVars, sockVars, delVars, upVars>>
    \/ \E c \in Calls, b \in Buffers, w \in {"ok", "failNoFile", "failPartial"} :
         CompressStart(c, b, w) /\ UNCHANGED <<viewVars, elVars, folderVars, rxVars, ffVars, sockVars, delVars, upVars>>
    \/ \E c \in Calls : FfmpegEncode(c) /\ UNCHANGED <<viewVars, elVars, folderVars, rxVars, ffVars, sockVars, delVars, upVars>>
    \/ \E c \in Calls, po \in BOOLEAN, uf \in SUBSET TempPaths :
         /\ uf \subseteq {calls[c].inputPath, calls[c].outputPath}
         /\ FfmpegError(c, po, uf) /\ UNCHANGED <<viewVars, elVars, folderVars, rxVars, ffVars, sockVars, delVars, upVars>>
    \/ \E c \in Calls, rf \in BOOLEAN, uf \in SUBSET TempPaths :
         /\ uf \subseteq {calls[c].inputPath, calls[c].outputPath}
         /\ FfmpegEnd(c, rf, uf) /\ UNCHANGED <<viewVars, elVars, folderVars, rxVars, ffVars, sockVars, delVars, upVars>>

SpecCompress == InitCompress /\ [][NextCompress]_vars

InitDelete == InitSock /\ InitComp /\ IdleViews /\ IdleElement /\ IdleFolder /\ IdleRx /\ IdleFf /\ InitDel /\ IdleUp

NextDelete ==
    \/ \E id \in IdsOf("homepage_elements"), e, f \in BOOLEAN :
         deleteHomepageElement(id, e, f) /\ UNCHANGED <<viewVars, elVars, folderVars, rxVars, ffVars, sockVars, compVars, upVars>>
    \/ \E id \in IdsOf("portfolio_projects"), e, f \in BOOLEAN :
         PortfolioService_deleteProject(id, e, f) /\ UNCHANGED <<viewVars, elVars, folderVars, rxVars, ffVars, sockVars, compVars, upVars>>
    \/ \E id \in IdsOf("portfolio_subcategories"), e, f \in BOOLEAN :
         deleteSubcategory(id, e, f) /\ UNCHANGED <<viewVars, elVars, folderVars, rxVars, ffVars, sockVars, compVars, upVars>>
    \/ \E id \in IdsOf("portfolio_project_videos"), e, f \in BOOLEAN :
         deleteProjectVideo(id, e, f) /\ UNCHANGED <<viewVars, elVars, folderVars, rxVars, ffVars, sockVars, compVars, upVars>>
    \/ \E id \in IdsOf("portfolio_project_images"), e, f \in BOOLEAN :
         deleteProjectImage(id, e, f) /\ UNCHANGED <<viewVars, elVars, folderVars, rxVars, ffVars, sockVars, compVars, upVars>>
    \/ \E id \in IdsOf("portfolio_projects"), e, f \in BOOLEAN :
         PortfolioController_deleteProject(id, e, f) /\ UNCHANGED <<viewVars, elVars, folderVars, rxVars, ffVars, sockVars, compVars, upVars>>

SpecDelete == InitDelete /\ [][NextDelete]_vars

InitUpload ==
    /\ InitSock /\ InitComp /\ IdleViews /\ IdleElement /\ IdleFolder /\ IdleRx /\ IdleFf
    /\ mediaService \in Uploaders
    /\ store = {} /\ db = [id \in RecordIds |-> NoRecord] /\ removed = {} /\ lastOp = NoOp
    /\ InitUp

NextUpload ==
    \/ \E ok \in BOOLEAN : StepStart(ok) /\ UNCHANGED <<viewVars, elVars, folderVars, rxVars, ffVars, sockVars, compVars, delVars>>
    \/ StepClassify /\ UNCHANGED <<viewVars, elVars, folderVars, rxVars, ffVars, sockVars, compVars, delVars>>
    \/ \E ok \in BOOLEAN : StepCreateFolder(ok) /\ UNCHANGED <<viewVars, elVars, folderVars, rxVars, ffVars, sockVars, compVars, delVars>>
    \/ \E raises \in BOOLEAN :
         StepShouldCompress(raises) /\ UNCHANGED <<viewVars, elVars, folderVars, rxVars, ffVars, notOutbox, compVars, delVars>>
    \/ \E percent \in Percents, raises \in BOOLEAN :
         StepCompressProgress(percent, raises) /\ UNCHANGED <<viewVars, elVars, folderVars, rxVars, ffVars, notOutbox, compVars, delVars>>
    \/ \E o \in CompressOutcomes, sz \in CompressedSizes :
         StepCompress(o, sz) /\ UNCHANGED <<viewVars, elVars, folderVars, rxVars, ffVars, sockVars, compVars, delVars>>
    \/ \E ok \in BOOLEAN, raises \in BOOLEAN :
         StepUpload(ok, raises) /\ UNCHANGED <<viewVars, elVars, folderVars, rxVars, ffVars, notOutbox, compVars, notStore>>
    \/ \E fitAt \in FitAttempts, sharpThrows \in BOOLEAN : StepNextImage(fitAt, sharpThrows) /\ UNCHANGED <<viewVars, elVars, folderVars, rxVars, ffVars, sockVars, compVars, delVars>>
    \/ \E o \in {"ok", "sharpError", "uploadError"} :
         StepUploadImage(o) /\ UNCHANGED <<viewVars, elVars, folderVars, rxVars, ffVars, sockVars, compVars, notStore>>
    \/ \E ok \in BOOLEAN : StepInsertProject(ok) /\ UNCHANGED <<viewVars, elVars, folderVars, rxVars, ffVars, sockVars, compVars, delVars>>
    \/ \E ok \in BOOLEAN : StepInsertImages(ok) /\ UNCHANGED <<viewVars, elVars, folderVars, rxVars, ffVars, sockVars, compVars, delVars>>
    \/ \E ok \in BOOLEAN, fault \in BOOLEAN :
         StepInsert(ok, fault) /\ UNCHANGED <<viewVars, elVars, folderVars, rxVars, ffVars, sockVars, compVars, notStore>>

SpecUpload == InitUpload /\ [][NextUpload]_vars

\* socket.on('disconnect', () => console.log(...)): what the handler does to
\* the request in progress.
AbortOnDisconnect(r) == IF r.pc \in {"done", "failed"} THEN r ELSE Fail(r, "aborted")

OnDisconnect(r) == r

ProgressSockets == {"s1"}
ProgressIds == { UploadPrefix \o <<"1">>, <<"a", "b", "c">> }
ProgressFiles == { [ext |-> "mp4", size |-> 1], [ext |-> "mp4", size |-> 50 * BytesPerMB + 1] }

\* One createHomepageElement request with a video, through the HTTP endpoint
\* or as a call of the service with an uploadId, while clients connect, join
\* sessions and disconnect.
InitProgress ==
    /\ InitSock /\ InitComp /\ IdleViews /\ IdleElement /\ IdleFolder /\ IdleRx /\ IdleFf
    /\ mediaService \in Uploaders
    /\ store = {} /\ db = [id \in RecordIds |-> NoRecord] /\ removed = {} /\ lastOp = NoOp
    /\ trace = <<>>
    /\ \E f \in ProgressFiles, id \in {UploadPrefix \o <<"1">>, NoUploadId} :
         up \in { HomepageController_createHomepageElement(TRUE, <<f>>, id),
                  Request("createHomepageElement", TRUE, <<f>>, id) }

NextProgress ==
    \/ \E s \in ProgressSockets : Connect(s) /\ UNCHANGED <<viewVars, elVars, folderVars, rxVars, ffVars, compVars, delVars, upVars>>
    \/ \E s \in ProgressSockets, id \in ProgressIds :
         JoinUpload(s, id) /\ UNCHANGED <<viewVars, elVars, folderVars, rxVars, ffVars, compVars, delVars, upVars>>
    \/ \E s \in ProgressSockets :
         Disconnect(s) /\ up' = OnDisconnect(up) /\ UNCHANGED <<viewVars, elVars, folderVars, rxVars, ffVars, trace, compVars, delVars>>
    \/ \E ok \in BOOLEAN : StepStart(ok) /\ UNCHANGED <<viewVars, elVars, folderVars, rxVars, ffVars, sockVars, compVars, delVars>>
    \/ StepClassify /\ UNCHANGED <<viewVars, elVars, folderVars, rxVars, ffVars, sockVars, compVars, delVars>>
    \/ \E ok \in BOOLEAN : StepCreateFolder(ok) /\ UNCHANGED <<viewVars, elVars, folderVars, rxVars, ffVars, sockVars, compVars, delVars>>
    \/ \E raises \in BOOLEAN :
         StepShouldCompress(raises) /\ UNCHANGED <<viewVars, elVars, folderVars, rxVars, ffVars, notOutbox, compVars, delVars>>
    \/ \E percent \in Percents, raises \in BOOLEAN :
         StepCompressProgress(percent, raises) /\ UNCHANGED <<viewVars, elVars, folderVars, rxVars, ffVars, notOutbox, compVars, delVars>>
    \/ \E o \in {"resolved", "transcoderError"} :
         StepCompress(o, 40 * BytesPerMB) /\ UNCHANGED <<viewVars, elVars, folderVars, rxVars, ffVars, sockVars, compVars, delVars>>
    \/ \E ok \in BOOLEAN, raises \in BOOLEAN :
         StepUpload(ok, raises) /\ UNCHANGED <<viewVars, elVars, folderVars, rxVars, ffVars, notOutbox, compVars, notStore>>
    \/ \E ok \in BOOLEAN, fault \in BOOLEAN :
         StepInsert(ok, fault) /\ UNCHANGED <<viewVars, elVars, folderVars, rxVars, ffVars, sockVars, compVars, notStore>>

SpecProgress == InitProgress /\ [][NextProgress]_vars

InitReceiver == InitSock /\ InitComp /\ IdleViews /\ IdleElement /\ IdleFolder /\ IdleDel /\ IdleUp /\ InitRx /\ IdleFf

NextReceiver ==
    \/ Receive /\ UNCHANGED <<viewVars, elVars, folderVars, sockVars, compVars, delVars, upVars, ffVars>>
    \/ Respond /\ UNCHANGED <<viewVars, elVars, folderVars, sockVars, compVars, delVars, upVars, ffVars>>

SpecReceiver == InitReceiver /\ [][NextReceiver]_vars

InitEncoder == InitSock /\ InitComp /\ IdleViews /\ IdleElement /\ IdleFolder /\ IdleDel /\ IdleUp /\ IdleRx /\ InitFf

NextEncoder ==
    \/ BuildCommand /\ UNCHANGED <<viewVars, elVars, folderVars, sockVars, compVars, delVars, upVars, rxVars>>
    \/ \E size \in EncodedSizes :
         CommandEnd(size) /\ UNCHANGED <<viewVars, elVars, folderVars, sockVars, compVars, delVars, upVars, rxVars>>

SpecEncoder == InitEncoder /\ [][NextEncoder]_vars

InitUploaderDelete ==
    /\ InitSock /\ InitComp /\ IdleViews /\ IdleElement /\ IdleFolder /\ IdleRx /\ IdleFf /\ IdleUp
    /\ mediaService \in Uploaders
    /\ store = DirectKeys
    /\ db = [id \in RecordIds |-> NoRecord]
    /\ removed = {}
    /\ lastOp = NoOp

NextUploaderDelete ==
    \E m \in {"deleteImage", "deleteVideo"}, k \in DirectKeys, f \in BOOLEAN :
        UploaderDelete(m, k, f) /\ UNCHANGED <<viewVars, elVars, folderVars, rxVars, ffVars, sockVars, compVars, upVars>>

SpecUploaderDelete == InitUploaderDelete /\ [][NextUploaderDelete]_vars

InitFolderRace == InitSock /\ InitComp /\ IdleViews /\ IdleElement /\ IdleDel /\ IdleUp /\ IdleRx /\ IdleFf /\ InitFolder

NextFolderRace ==
    \/ \E u \in FolderUploads, fails \in BOOLEAN :
         StepFolderExists(u, fails) /\ UNCHANGED <<viewVars, elVars, sockVars, compVars, delVars, upVars, rxVars, ffVars>>
    \/ \E u \in FolderUploads, fails \in BOOLEAN :
         StepCreateFolderUpload(u, fails) /\ UNCHANGED <<viewVars, elVars, sockVars, compVars, delVars, upVars, rxVars, ffVars>>
    \/ \E u \in FolderUploads, fails \in BOOLEAN :
         StepWrite(u, fails) /\ UNCHANGED <<viewVars, elVars, sockVars, compVars, delVars, upVars, rxVars, ffVars>>

SpecFolderRace == InitFolderRace /\ [][NextFolderRace]_vars

InitElements == InitSock /\ InitComp /\ IdleViews /\ IdleFolder /\ IdleUp /\ IdleRx /\ IdleFf /\ InitElement

NextElements ==
    \/ \E id \in ElementIds, u, d \in BOOLEAN :
         /\ HomepageService_createHomepageElement(id, u, d)
         /\ UNCHANGED <<viewVars, mediaService, removed, lastOp, folderVars, sockVars, compVars, upVars, rxVars, ffVars>>
    \/ \E id \in ElementIds, u, d \in BOOLEAN :
         /\ bulkUploadElements(id, u, d)
         /\ UNCHANGED <<viewVars, mediaService, removed, lastOp, folderVars, sockVars, compVars, upVars, rxVars, ffVars>>
    \/ \E id \in ElementIds, f, u, d \in BOOLEAN :
         /\ updateElementMedia(id, f, u, d)
         /\ UNCHANGED <<viewVars, mediaService, removed, lastOp, folderVars, sockVars, compVars, upVars, rxVars, ffVars>>
    \/ \E id \in ElementIds, e, f \in BOOLEAN :
         /\ deleteHomepageElement(id, e, f)
         /\ lastEl' = NoElementOp
         /\ UNCHANGED <<viewVars, mediaUrl, issued, folderVars, sockVars, compVars, upVars, rxVars, ffVars>>

SpecElements == InitElements /\ [][NextElements]_vars

InitViewCount ==
    InitSock /\ InitComp /\ IdleElement /\ IdleFolder /\ IdleDel /\ IdleUp /\ IdleRx /\ IdleFf /\ InitViews

NextViewCount ==
    \/ \E v \in Viewers, e \in BOOLEAN :
         SelectViewCount(v, e) /\ UNCHANGED <<elVars, folderVars, sockVars, compVars, delVars, upVars, rxVars, ffVars>>
    \/ \E v \in Viewers, e \in BOOLEAN :
         UpdateViewCount(v, e) /\ UNCHANGED <<elVars, folderVars, sockVars, compVars, delVars, upVars, rxVars, ffVars>>

SpecViewCount == InitViewCount /\ [][NextViewCount]_vars

(***************************************************************************)
(* Claims about the progress notifier (checked under SpecSocket).          *)
(***************************************************************************)
UploadSessionsOf(s) == rooms[s] \ {SocketIdRoom(s)}

\* C9: after a connection has handled 'join-upload' for session X, whatever ids
\* it announced before, it is a member of session X and of no other upload
\* session.
C9_OneSessionPerConnection ==
    \A s \in connected :
        joinLog[s] # <<>> /\ lastEffects.socket = s
            => UploadSessionsOf(s) = {Last(joinLog[s])}

\* C10: every handled 'join-upload' is answered by exactly one 'room-joined'
\* acknowledgment carrying the announced id and status 'ready', sent by the
\* same handler after the socket has been added to the session's room.
AckFor(uploadId) == [event |-> "room-joined", uploadId |-> uploadId, status |-> "ready"]

C3_NoTempFileAfterSettle ==
    \A c \in Calls :
        calls[c].pc = "settled"
            => /\ tempDir[calls[c].inputPath] = Absent
               /\ tempDir[calls[c].outputPath] = Absent

\* C4: two invocations that overlap in time use different input and output
\* paths, and every invocation that resolves resolves with the output produced
\* from its own input.
InFlight(c) == calls[c].pc \in {"running", "encoded"}

C4_ConcurrentCallsIndependent ==
    /\ \A c, d \in Calls :
          c # d /\ InFlight(c) /\ InFlight(d)
              => /\ calls[c].inputPath # calls[d].inputPath
                 /\ calls[c].outputPath # calls[d].outputPath
    /\ \A c \in Calls :
          calls[c].settled = "resolved" => calls[c].result = Encoded(calls[c].buffer)

(***************************************************************************)
(* Claims about deletion (C7 under SpecDelete, C8 under SpecUploaderDelete). *)
(***************************************************************************)
OwningDeletes ==
    {"deleteHomepageElement", "PortfolioService.deleteProject", "deleteSubcategory",
     "deleteProjectVideo", "deleteProjectImage", "PortfolioController.deleteProject"}

\* C7: in every operation that deletes a record owning media, a failing remote
\* delete does not block the deletion of the row: when the row existed and the
\* database delete itself does not fail, the row is gone afterwards, whether or
\* not the remote delete succeeded.
C7_RemoteFailureDoesNotBlock ==
    (/\ lastOp.op \in OwningDeletes
     /\ lastOp.existed
     /\ ~lastOp.dbError
     /\ lastOp.remoteFailed)
        => db[lastOp.id] = NoRecord

\* C8: a delete of a publicId repeated after a delete of it that succeeded does
\* not raise when the store answers the request: the missing object is not an
\* error.
C8_DeleteIdempotent ==
    (/\ lastOp.op \in {"deleteImage", "deleteVideo"}
     /\ lastOp.repeated
     /\ ~lastOp.fault)
        => ~lastOp.raised

\* C8 witness: the uploader's delete has been called again on a publicId it had
\* removed before, the object being gone, and has returned.
C8_Witness ==
    /\ lastOp.op \in {"deleteImage", "deleteVideo"}
    /\ lastOp.repeated
    /\ ~lastOp.existed
    /\ ~lastOp.fault
    /\ ~lastOp.raised

(***************************************************************************)
(* Claims about the upload pipeline (SpecUpload).                          *)
(***************************************************************************)
Thresholds == {10, 50}

\* The positions of trace holding an entry of operation op.
EntriesOf(op) == { k \in 1..Len(trace) : trace[k].op = op }

\* C1: in uploadVideo of either uploader, when shouldCompress was true and
\* compressVideoBuffer rejected (for whatever reason), the request does not
\* fail because of the compression, and the next thing uploadVideo does is
\* the remote-store upload of the original file buffer (the only thing that
\* can come between is the 'uploading' progress callback).
C1_CompressionFailureFallsBack ==
    \A k \in EntriesOf("compress") :
       ~trace[k].ok =>
          /\ up.error # "compression"
          /\ \E j \in EntriesOf("shouldCompress") : j < k /\ trace[j].ok /\ trace[j].file = trace[k].file
          /\ LET rest == { j \in EntriesOf("upload") : j > k } IN
               IF rest = {}
                 THEN /\ up.pc = "upload" \/ up.error = "progress"
                      /\ up.uploadBuffer = Original(up.files[trace[k].file])
                 ELSE \E j \in rest :
                        /\ \A m \in rest : j <= m
                        /\ trace[j].file = trace[k].file
                        /\ trace[j].body = Original(up.files[trace[k].file])
                        /\ \A m \in (k + 1)..(j - 1) : trace[m].op = "progress"

\* A request completed although the compression of its video failed, with
\* the original buffer stored, under each uploader.
C1_Witness ==
    /\ up.pc = "done"
    /\ mediaService = "cloudinary"
    /\ \E k \in EntriesOf("compress"), j \in EntriesOf("upload") :
         /\ trace[k].info = "writeError"
         /\ j > k /\ trace[j].ok
         /\ trace[j].body = Original(up.files[trace[k].file])

\* C2: shouldCompress(buffer, thresholdMB) is true exactly when the buffer has
\* more than thresholdMB * 1024 * 1024 bytes; and for a video of at most 50MB
\* uploadVideo never calls compressVideoBuffer and uploads the original buffer.
C2_ShouldCompressThreshold ==
    /\ \A i \in 1..Len(up.files), t \in Thresholds :
         shouldCompress(Original(up.files[i]), t) <=> up.files[i].size > t * BytesPerMB
    /\ \A k \in EntriesOf("shouldCompress") :
         trace[k].ok <=> up.files[trace[k].file].size > 50 * BytesPerMB
    /\ \A i \in 1..Len(up.files) :
         up.files[i].size <= 50 * BytesPerMB =>
            /\ \A k \in EntriesOf("compress") : trace[k].file # i
            /\ \A k \in EntriesOf("upload") :
                 trace[k].file = i /\ trace[k].info = "video" => trace[k].body = Original(up.files[i])

\* A video of exactly 50MB has been uploaded.
C2_Witness ==
    \E k \in EntriesOf("upload") :
       /\ trace[k].ok /\ trace[k].info = "video"
       /\ up.files[trace[k].file].size = 50 * BytesPerMB
       /\ trace[k].body = Original(up.files[trace[k].file])

\* C5: in every create path, a content record is inserted only after the
\* upload of each of its media succeeded, and a request that failed in a
\* storage upload has written no record for the content of that file.
C5_InsertOnlyAfterUpload ==
    /\ \A k \in EntriesOf("insert") :
         \A m \in trace[k].media :
            \E j \in EntriesOf("upload") : j < k /\ trace[j].ok /\ trace[j].file = m
    /\ up.error = "upload" =>
         ~ \E k \in EntriesOf("insert") : trace[k].ok /\ up.i \in trace[k].media

\* The operations of the request that C6 orders, in the order they happened.
RECURSIVE StepsOf(_)
StepsOf(t) ==
    IF t = << >> THEN << >>
    ELSE IF t[1].op \in {"classify", "shouldCompress", "compress", "upload", "insert"}
           THEN << t[1].op >> \o StepsOf(Tail(t))
           ELSE StepsOf(Tail(t))

IsPrefix(s, t) == Len(s) <= Len(t) /\ \A k \in 1..Len(s) : s[k] = t[k]

CanonicalSteps(f) ==
    << "classify", "shouldCompress" >>
      \o (IF f.size > 50 * BytesPerMB THEN << "compress" >> ELSE << >>)
      \o << "upload", "insert" >>

\* C6: in a createHomepageElement request with a video file, the steps run in
\* the order classify, shouldCompress, compress (only when shouldCompress is
\* true), upload, insert: each starts after the one before it settled, a
\* failed upload ends the request, and a completed request ran every step.
C6_StepsInOrder ==
    (up.kind = "createHomepageElement" /\ up.files # << >> /\ IsVideo(up.files[1])) =>
       /\ IsPrefix(StepsOf(trace), CanonicalSteps(up.files[1]))
       /\ up.pc = "done" => StepsOf(trace) = CanonicalSteps(up.files[1])
       /\ \A k \in 1..Len(trace) :
            (trace[k].op = "upload" /\ ~trace[k].ok) => k = Len(trace)

\* A createHomepageElement request with a video over 50MB ran to completion
\* through the S3 uploader with progress events.
C6_Witness ==
    /\ up.kind = "createHomepageElement" /\ up.pc = "done" /\ up.uploadId # NoUploadId
    /\ mediaService = "s3"
    /\ StepsOf(trace) = << "classify", "shouldCompress", "compress", "upload", "insert" >>

(***************************************************************************)
(* Claims about progress reporting (SpecProgress).                         *)
(***************************************************************************)
\* The positions of a socket's outbox holding an 'upload-progress' event.
ProgressOf(s) == { p \in 1..Len(outbox[s]) : outbox[s][p].event = "upload-progress" }

\* C11: when an upload through POST /api/homepage/elements carries session id
\* X and its video is compressed, every progress report of the transcoder
\* (with a percentage) is followed by one 'upload-progress' event to room X
\* with the same status and percentage.
C11_EngineProgressForwarded ==
    (up.via = "http" /\ up.session # NoUploadId /\ up.error # "progress") =>
       \A k \in EntriesOf("ffmpegProgress") :
          trace[k].body.size # 0 =>
             /\ k < Len(trace)
             /\ trace[k + 1].op = "progress"
             /\ trace[k + 1].info = trace[k].info
             /\ trace[k + 1].body = trace[k].body
             /\ up.uploadId = up.session

\* C12: no event is buffered or replayed: every 'upload-progress' event a
\* socket received was emitted to a room the socket had joined before the
\* event was emitted, and no event is received twice.
C12_NoReplay ==
    \A s \in Sockets :
       \A p \in ProgressOf(s) :
          /\ \E j \in 1..Len(joinedAt[s]) :
                /\ joinedAt[s][j].room = outbox[s][p].uploadId
                /\ joinedAt[s][j].at < outbox[s][p].seq
          /\ \A q \in ProgressOf(s) : outbox[s][q].seq = outbox[s][p].seq => q = p

\* A socket that joined the session after the compression events were
\* emitted received the 'uploading' event and none of the earlier ones.
C12_Witness ==
    \E s \in Sockets :
       /\ \E k \in EntriesOf("progress") : trace[k].info = "compressing"
       /\ ProgressOf(s) # {}
       /\ \A p \in ProgressOf(s) : outbox[s][p].status = "uploading"

\* C13: a socket's disconnect changes nothing of the upload in progress: the
\* request, its effects so far, the store and the database are as before.
C13_DisconnectLeavesUpload ==
    [][ (\E s \in Sockets : s \in connected /\ s \notin connected')
          => (up' = up /\ trace' = trace /\ store' = store /\ db' = db) ]_vars

\* A request ran to completion although its subscriber disconnected after
\* the first progress event and before the 'uploading' event.
C13_Witness ==
    \E s \in Sockets :
       /\ s \notin connected
       /\ up.pc = "done"
       /\ \E k \in EntriesOf("progress") : trace[k].info = "uploading"
       /\ ProgressOf(s) # {}
       /\ \A p \in ProgressOf(s) : outbox[s][p].status = "compressing"

\* C14: an error of the progress channel (nobody in the room, a client that
\* left, the callback throwing while it emits) never fails the request.
C14_ProgressErrorsIgnored ==
    up.pc = "failed" => up.error # "progress"

(***************************************************************************)
(* Claims about the upload receiver (SpecReceiver).                        *)
(***************************************************************************)
\* The class of a file by its extension and by its declared MIME type.
ExtClass(file) ==
    IF \E t \in VideoTypes : file.ext = <<".">> \o t THEN "video"
    ELSE IF \E t \in ImageTypes : file.ext = <<".">> \o t THEN "image"
    ELSE "other"

MimeClass(file) ==
    IF StartsWith(file.mimetype, <<"v", "i", "d", "e", "o", "/">>) THEN "video"
    ELSE IF StartsWith(file.mimetype, <<"i", "m", "a", "g", "e", "/">>) THEN "image"
    ELSE "other"

\* The classes of file a route is for.
RouteClasses(route) ==
    CASE route \in {"portfolio_create", "team_create"} -> {"image"}
      [] route = "portfolio_video" -> {"video"}
      [] OTHER -> {"image", "video"}

\* The request has files, in the expected field, of a type and size that the
\* spec allows on the route.
WellFormedFiles ==
    /\ rx.n >= 1 /\ rx.field = "expected"
    /\ ExtClass(rx.file) = MimeClass(rx.file)
    /\ ExtClass(rx.file) \in RouteClasses(rx.route)
    /\ rx.file.size <= 500 * BytesPerMB

\* C15: a 413 FILE_TOO_LARGE response names the class of the rejected file
\* and the limit of that class: 'video' and '500MB' for a video, 'image' and
\* the image limit for an image.
C15_TooLargeNamesClass ==
    rx.res.code = "FILE_TOO_LARGE" =>
       /\ rx.res.status = 413
       /\ rx.res.fileType = ExtClass(rx.file)
       /\ rx.res.maxSize = (IF ExtClass(rx.file) = "video" THEN "500MB" ELSE "50MB")

\* C16: on every upload route a rejection by the receiver is answered with a
\* 4xx status and the route's handler is not entered.
C16_RejectionIsClientError ==
    /\ rx.pc = "responded" => rx.res.status \in 400..499
    /\ rx.err # NoError => rx.pc # "handler"

\* C17: the receiver's file filter accepts a file exactly when its extension
\* and its MIME type are of the same class and that class is one of the
\* route's.
C17_FilterMatchesClass ==
    (rx.pc \in {"received", "responded", "handler"} /\ rx.n >= 1 /\ rx.field = "expected") =>
       (rx.err.name # "Error" <=>
          /\ ExtClass(rx.file) = MimeClass(rx.file)
          /\ ExtClass(rx.file) \in RouteClasses(rx.route))

\* C18: a file that reaches a handler is at most 500MB, and at most 50MB on
\* a route for images only.
C18_SizeLimits ==
    (rx.pc = "handler" /\ rx.n >= 1) =>
       /\ rx.file.size <= 500 * BytesPerMB
       /\ RouteClasses(rx.route) = {"image"} => rx.file.size <= 50 * BytesPerMB

\* C19: a bulk upload of more than 10 (otherwise acceptable) files is
\* rejected with code TOO_MANY_FILES and 1 to 10 such files reach the handler.
C19_TooManyFiles ==
    (rx.route = "homepage_bulk_upload" /\ WellFormedFiles /\ rx.pc \in {"responded", "handler"}) =>
       IF rx.n > 10 THEN rx.pc = "responded" /\ rx.res.code = "TOO_MANY_FILES"
       ELSE rx.pc = "handler"

(***************************************************************************)
(* Claims about the transcoder options (SpecEncoder).                      *)
(***************************************************************************)
\* C20: the quality tiers map to low -> CRF 28 / ultrafast, medium -> CRF 23 /
\* fast, high -> CRF 18 / medium, and every other value of quality, a missing
\* one included, maps to the medium pair CRF 23 / fast.
C20_QualityTiers ==
    ff.pc = "built" =>
       CASE ff.quality = "low" -> ff.crf = Num(28) /\ ff.preset = Str("ultrafast")
         [] ff.quality = "high" -> ff.crf = Num(18) /\ ff.preset = Str("medium")
         [] OTHER -> ff.crf = Num(23) /\ ff.preset = Str("fast")

\* k is the whole part of num / den (num >= 0, den > 0)
IsFloorOf(k, num, den) == k * den <= num /\ num < (k + 1) * den

\* Durations of a video in seconds, as the caller of calculateBitrate knows it
Durations == {1, 60, 600}

\* C21: calculateBitrate(targetSizeMB, durationSeconds) is the larger of 500
\* and the whole part of targetSizeMB * 8 * 1024 * 1024 / durationSeconds /
\* 1000; compressVideoBuffer evaluates it for 60 seconds, gives it to the
\* transcoder as maxrate and exactly twice it as bufsize.
C21_BitrateEstimate ==
    /\ \A t \in TargetSizes, d \in Durations :
          LET b == calculateBitrate(t, d)
              bits == t * 8 * 1024 * 1024 IN
            /\ b >= 500
            /\ b > 500 => IsFloorOf(b, bits, d * 1000)
            /\ b = 500 => bits < 501 * d * 1000
    /\ ff.pc # "called" /\ ff.pc # "none" =>
          /\ ff.maxrate >= 500
          /\ ff.maxrate > 500 => IsFloorOf(ff.maxrate, ff.targetSizeMB * 8 * 1024 * 1024, 60 * 1000)
          /\ ff.maxrate = 500 => ff.targetSizeMB * 8 * 1024 * 1024 < 501 * 60 * 1000
          /\ ff.bufsize = 2 * ff.maxrate

\* Commands were built for the 50MB target of the uploaders (above the
\* minimum) and for a target whose estimate is below the minimum.
C21_Witness ==
    /\ ff.pc = "built"
    /\ \/ ff.targetSizeMB = 50 /\ ff.maxrate = 6990 /\ ff.bufsize = 13980
       \/ ff.targetSizeMB = 3 /\ ff.maxrate = 500 /\ ff.bufsize = 1000

\* C22: the compressionRatio of a resolved compression is exactly
\* (originalSize - compressedSize) / originalSize for the two measured byte
\* sizes, also when the output is larger than the input.
C22_RatioExact ==
    ff.pc = "resolved" =>
       LET diff == ff.originalSize - ff.compressedSize
           exact == Scaled(Abs(diff), ff.originalSize, 1) IN
         \* the reported number, compressionRatio / 10, is diff / originalSize
         /\ exact.r = 0
         /\ Abs(ff.compressionRatio) = exact.q
         /\ (diff < 0) = (ff.compressionRatio < 0)

(***************************************************************************)
(* Further claims about the upload pipeline (SpecUpload).                  *)
(***************************************************************************)
\* C25: whenever uploadVideo compressed a video (it exceeded 50MB), the
\* compression was requested with audio removal, so the compressed output
\* that is uploaded has no audio stream.
C25_CompressedWithoutAudio ==
    \A k \in EntriesOf("compress") :
       /\ up.files[trace[k].file].size > 50 * BytesPerMB
       /\ up.audio = "-an"

(***************************************************************************)
(* Claims about folder creation (SpecFolderRace).                          *)
(***************************************************************************)
\* C23: an upload writes its object only after its createFolder returned,
\* and no upload fails because of the folder: when createFolder's own
\* upload failed, or two uploads both found the folder missing and both
\* created it, each goes on to its write, which alone decides its outcome.
C23_FolderRaceTolerated ==
    \A u \in FolderUploads :
       /\ <<fu[u].folder, u>> \in bucket => fu[u].pc = "done"
       /\ fu[u].pc = "failed" => fu[u].error = "upload"
       /\ fu[u].warned => fu[u].pc \in {"write", "done", "failed"}

\* Two uploads found the same folder missing; one created it, the other's
\* creation failed; both completed.
C23_Witness ==
    /\ fu["u1"].folder = fu["u2"].folder
    /\ \A u \in FolderUploads : ~fu[u].exists /\ fu[u].pc = "done"
    /\ fu["u1"].warned /\ ~fu["u2"].warned
    /\ <<fu["u1"].folder, ".placeholder">> \in bucket

(***************************************************************************)
(* Claims about failed database writes (SpecUpload).                       *)
(***************************************************************************)
\* The files of the request whose remote upload succeeded.
Uploaded == { trace[k].file : k \in { j \in EntriesOf("upload") : trace[j].ok } }

\* C24 (as stated): when the database write fails after a successful remote
\* upload, no path issues a compensating delete: the request fails and the
\* uploaded object is still in the store.
C24_NoCompensatingDelete ==
    (up.error = "db" /\ Uploaded # {}) =>
       /\ up.pc = "failed"
       /\ EntriesOf("deleteVideo") = {}
       /\ \A i \in Uploaded : UploadKey(i) \in store

\* C24 (amended): when the database write fails after a successful remote
\* upload the request fails; createHomepageElement, bulkUploadElements and
\* createProject issue no delete and every uploaded object stays in the
\* store; uploadProjectVideo calls the uploader's deleteVideo for the video
\* right after the failed insert, and the object is gone exactly when that
\* call returned.
C24_CompensationOnlyForProjectVideo ==
    (up.error = "db" /\ Uploaded # {}) =>
       /\ up.pc = "failed"
       /\ up.kind # "uploadProjectVideo" =>
             /\ EntriesOf("deleteVideo") = {}
             /\ \A i \in Uploaded : UploadKey(i) \in store
       /\ up.kind = "uploadProjectVideo" =>
             /\ EntriesOf("deleteVideo") = {Len(trace)}
             /\ trace[Len(trace) - 1].op = "insert" /\ ~trace[Len(trace) - 1].ok
             /\ trace[Len(trace)].file = up.i
             /\ UploadKey(up.i) \in store <=> ~trace[Len(trace)].ok

\* The insert of uploadProjectVideo failed after its upload and the S3
\* uploader removed the video again.
C24_Witness ==
    /\ up.kind = "uploadProjectVideo" /\ up.error = "db" /\ mediaService = "s3"
    /\ Uploaded = {1}
    /\ UploadKey(1) \notin store

(***************************************************************************)
(* Claims about homepage elements (SpecElements).                          *)
(***************************************************************************)
\* C26: after a successful updateElementMedia or bulkUploadElements (as after
\* a successful createHomepageElement) the row's media_url and
\* media_public_id are the url and publicId the uploader returned for the
\* file just uploaded, never null or undefined.
C26_PersistedMediaIsUploaded ==
    (lastEl.op \in {"createHomepageElement", "updateElementMedia", "bulkUploadElements"} /\ lastEl.ok) =>
       /\ db[lastEl.id] # NoRecord
       /\ db[lastEl.id].publicId = lastEl.result.publicId
       /\ mediaUrl[lastEl.id] = lastEl.result.url
       /\ db[lastEl.id].publicId \notin {NoMedia, "undefined"}
       /\ mediaUrl[lastEl.id] \notin {NoMedia, "undefined"}

\* C27: every homepage element whose media_public_id is not null references
\* an object that exists in the remote store.
C27_NoDanglingMedia ==
    \A id \in ElementIds :
       (db[id] # NoRecord /\ db[id].publicId # NoMedia) => db[id].publicId \in store

(***************************************************************************)
(* Claims about the order of progress events (SpecUpload).                 *)
(***************************************************************************)
\* The positions of the 'upload-progress' events of a status for a file.
EventsOf(status, file) ==
    { j \in EntriesOf("progress") : trace[j].info = status /\ trace[j].file = file }

\* C28: in an uploadVideo call of S3Service with a progress callback, the
\* 'uploading' event is emitted exactly once, immediately before the store
\* upload starts, whether the video was compressed, compression was skipped
\* or it failed; every 'compressing' event and every progress report of the
\* transcoder precedes it.
C28_ProgressOrdered ==
    HasOnProgress(up, mediaService) =>
       /\ \A k \in EntriesOf("upload") :
             trace[k].info = "video" =>
                /\ EventsOf("uploading", trace[k].file) = {k - 1}
                /\ \A j \in EventsOf("compressing", trace[k].file) : j < k - 1
       /\ \A j \in EntriesOf("progress") :
             trace[j].info = "uploading" =>
                /\ j < Len(trace) /\ trace[j + 1].op = "upload"
                /\ \A m \in (j + 1)..Len(trace) :
                      ~(trace[m].op \in {"progress", "ffmpegProgress", "compress", "shouldCompress"}
                        /\ trace[m].file = trace[j].file)

\* The compression of a video failed after the transcoder had reported
\* progress; the events were 'compressing' (0 and 50), then 'uploading', and
\* the original was stored.
C28_Witness ==
    /\ up.pc = "done" /\ HasOnProgress(up, mediaService)
    /\ \E c \in EntriesOf("compress") : ~trace[c].ok
    /\ \E j \in EventsOf("compressing", 1) : trace[j].body = Percent(50)
    /\ \E j \in EventsOf("compressing", 1) : trace[j].body = Percent(0)
    /\ EventsOf("uploading", 1) # {}

(***************************************************************************)
(* Claims about the view counter (SpecViewCount).                          *)
(***************************************************************************)
\* The incrementViewCount calls that returned.
Counted == { v \in Viewers : vc[v].pc = "done" }

\* C29: no update is lost: in every interleaving of the selects and updates
\* of the calls, once every call has returned or failed the view_count has
\* grown by exactly the number of calls that returned.
C29_NoLostUpdate ==
    (\A v \in Viewers : vc[v].pc \in {"done", "failed"}) =>
       \* the count at the start was 0 (or NULL) or 5, and at most 3 calls ran
       \E start \in {0, 5} : OrElse(viewCount, Num(0)).n = start + Cardinality(Counted)


\* The recompression loop of createProject has run to its exit for the
\* current image, which is over 10MB.
LoopExited(r) ==
    /\ r.kind = "createProject"
    /\ r.files # <<>>
    /\ r.files[r.i].size > 10 * BytesPerMB
    /\ r.attempts > 0

\* The buffer the loop left fits in 10MB.
LoopFits(r) == r.uploadBuffer.size <= 10 * BytesPerMB

\* C30: the recompression loop of createProject ends for every image over
\* 10MB after at most 8 sharp calls, the quality being 95 lowered by 10 for
\* each output that did not fit; at its exit either the buffer is at most
\* 10MB and goes to uploadImage (every image upload of the request carries at
\* most 10MB), or the validation error is thrown and no upload of that image
\* is made.
C30_RecompressionBounded ==
    /\ up.kind = "createProject" =>
          \A k \in 1..Len(trace) :
             trace[k].op = "upload" => trace[k].body.size <= 10 * BytesPerMB
    /\ LoopExited(up) =>
          /\ up.attempts <= 8
          /\ up.quality = 95 - 10 * (up.attempts - (IF LoopFits(up) THEN 1 ELSE 0))
          /\ \/ /\ LoopFits(up)
                /\ up.error # "validation"
                /\ \/ up.pc \in {"createFolder", "uploadImage"}
                   \/ up.pc = "failed" /\ up.error = "upload"
                   \/ \E k \in 1..Len(trace) :
                         /\ trace[k].op = "upload"
                         /\ trace[k].file = up.i
                         /\ trace[k].body = Processed(up.uploadBuffer.size)
             \/ /\ ~LoopFits(up)
                /\ up.attempts = 8
                /\ up.pc = "failed"
                /\ up.error = "validation"
                /\ \A k \in 1..Len(trace) :
                      trace[k].op = "upload" => trace[k].file # up.i

\* An image over 10MB fits only at the eighth attempt (quality 25) and is
\* uploaded; the loop gave up on another request after eight attempts.
C30_Witness ==
    /\ LoopExited(up)
    /\ up.attempts = 8
    /\ up.quality = 25
    /\ \E k \in 1..Len(trace) :
          /\ trace[k].op = "upload"
          /\ trace[k].ok
          /\ trace[k].file = up.i
          /\ trace[k].body = Processed(10 * BytesPerMB)

====
